---- MODULE Spec2Model ----
(***************************************************************************)
(* Model of the `core` command of cloudberry-toolbox: the concurrent       *)
(* per-file fan-out of runCoreAnalysis (cmd/core.go), the per-file         *)
(* assembler analyzeCoreFile (unnamed/part_000) with the thread segmenter  *)
(* parseThreads (cmd/core_parser_threads.go), the signal inference         *)
(* detectSignalFromStack (cmd/core_parser_signal.go), the save step        *)
(* saveAnalysis (unnamed/part_007) and the two deduplication passes        *)
(* deduplicateThreads and deduplicateStackTrace.                           *)
(*                                                                         *)
(* The specifications of the module:                                       *)
(*   Spec / FairSpec  runCoreAnalysis with one task per core file          *)
(*   AnalyzeSpec      analyzeCoreFile + saveAnalysis on one transcript     *)
(*   DedupSpec        deduplicateThreads / deduplicateStackTrace as pure   *)
(*                    functions over bounded input lists                   *)
(*   CompareSpec      compareCores (unnamed/part_007) on bounded lists of  *)
(*                    analyses                                             *)
(*   SignalSpec       parseSignalInfo, getSignalName, getSignalDescription *)
(*   ClassifySpec     categorizeLibrary and determineThreadRole            *)
(*   SummarySpec      getThreadSummary on bounded thread lists             *)
(*   InfoSpec         parseBasicInfo and extractProcessInfo on one command *)
(*                    line                                                 *)
(*   SaveSpec         saveAnalysis and the reading back of its document    *)
(*   AddressSpec      findAddressLibrary and addFaultAddressContext        *)
(***************************************************************************)
EXTENDS Integers, Sequences, FiniteSets, TLC

VARIABLES
    \* ---- runCoreAnalysis (cmd/core.go) ----
    env,        \* the environment the command runs in (flags, GPHOME, path)
    pc,         \* position of the main goroutine
    coreFiles,  \* the list findCoreFiles returned (after the maxCores cut)
    nextFile,   \* index of the range loop over coreFiles
    wg,         \* sync.WaitGroup counter
    mu,         \* sync.Mutex: 0 when free, else the task holding it
    analyses,   \* the shared result collection ([]CoreAnalysis)
    taskPc,     \* position of each per-file goroutine
    outcome,    \* what analyzeCoreFile returned in each task
    tmp,        \* each task's copy of the slice header read by append
    saved,      \* what saveOrPrintAnalysis returned in each task
    ret,        \* the error runCoreAnalysis returned
    compared,   \* the list compareCores was called with (<<>> if not called)
    clock,      \* the second the latest time.Now() of a saveAnalysis fell in
    files,      \* outputDir: file name -> the tasks that wrote it, in order
    stdout,     \* the writes of printGDBStyle to standard output, in order
    \* ---- analyzeCoreFile on one transcript ----
    apc,        \* position inside analyzeCoreFile / saveAnalysis
    transcript, \* the debugger output, as a sequence of classified lines
    analysis,   \* the CoreAnalysis being built
    parsed,     \* the SignalInfo as parseSignalInfo decoded it
    phases,     \* the post-parse mutation passes performed, in order
    document,   \* the analysis as saveAnalysis serialises it
    \* ---- deduplication as pure functions ----
    dpc,          \* position in the sequence of applications
    dFrames,      \* the frame list handed to deduplicateStackTrace
    dFramesOut,   \* its result
    dThreads,     \* the thread list handed to deduplicateThreads
    dThreadsOut,  \* its result
    dFramesTwice, \* deduplicateStackTrace applied to dFramesOut
    dThreadsTwice, \* deduplicateThreads applied to dThreadsOut
    \* ---- compareCores on a list of analyses ----
    cpc,          \* "in" before the call, "done" after it
    cAnalyses,    \* the analyses handed to compareCores
    comparison,   \* the CoreComparison it returned
    \* ---- signal decoding ----
    spc,          \* position in the sequence of applications
    sOutput,      \* a debugger output, as a sequence of classified lines
    sSigno,       \* a signal number
    sCode,        \* a signal code
    sInfo,        \* parseSignalInfo(sOutput) of cmd/core_parser_signal.go
    sInfoByLine,  \* parseSignalInfo(sOutput) of cmd/core_parser.go
    sName,        \* getSignalName(sSigno)
    sDescription, \* getSignalDescription(sSigno, sCode)
    \* ---- library and thread classification ----
    kpc,          \* position in the sequence of applications
    kPath,        \* a library path
    kBacktrace,   \* a thread's backtrace
    kType,        \* categorizeLibrary(kPath)
    kRole,        \* determineThreadRole(kBacktrace)
    \* ---- getThreadSummary on a list of threads ----
    mpc,          \* "in" before the call, "done" after it
    mThreads,     \* the threads handed to getThreadSummary
    mSummary,     \* the map it returned
    \* ---- BasicInfo of one command line ----
    ipc,          \* position in the sequence of applications
    iCmdline,     \* the command line inside the file-probe output, by its fields
    iBasicInfo,   \* parseBasicInfo(analysis.FileInfo.FileOutput), as attached
    iProcessInfo, \* the map extractProcessInfo(cmdline, info) filled
    \* ---- saveAnalysis and the reading back of its file ----
    vpc,          \* position in the sequence of applications
    vSource,      \* the source file whose saveAnalysis is compiled in
    vFormat,      \* formatFlag: "json" or "yaml"
    vAnalysis,    \* the CoreAnalysis handed to saveAnalysis
    vData,        \* the document written to the file
    vRestored,    \* the CoreAnalysis that Unmarshal read from the document
    \* ---- the library of a fault address ----
    lpc,          \* position in the sequence of applications
    lAddress,     \* the address, a string as the sequence of its characters
    lLibraries,   \* the library list
    lFound,       \* findAddressLibrary(lAddress, lLibraries): <<lib>>, <<>> for nil
    lDescription  \* SignalDescription after addFaultAddressContext

runVars == <<env, pc, coreFiles, nextFile, wg, mu, analyses, taskPc, outcome,
             tmp, saved, ret, compared, clock, files, stdout>>
outVars == <<clock, files, stdout>>
analyzeVars == <<apc, transcript, analysis, parsed, phases, document>>
dedupVars == <<dpc, dFrames, dFramesOut, dThreads, dThreadsOut, dFramesTwice,
              dThreadsTwice>>
compareVars == <<cpc, cAnalyses, comparison>>
signalVars == <<spc, sOutput, sSigno, sCode, sInfo, sInfoByLine, sName, sDescription>>
classifyVars == <<kpc, kPath, kBacktrace, kType, kRole>>
summaryVars == <<mpc, mThreads, mSummary>>
infoVars == <<ipc, iCmdline, iBasicInfo, iProcessInfo>>
saveVars == <<vpc, vSource, vFormat, vAnalysis, vData, vRestored>>
addressVars == <<lpc, lAddress, lLibraries, lFound, lDescription>>
pureVars == <<summaryVars, infoVars, saveVars, addressVars>>
vars == <<runVars, analyzeVars, dedupVars, compareVars, signalVars, classifyVars,
          pureVars>>

----------------------------------------------------------------------------
(* Small helpers over sequences *)

Range(s) == {s[i] : i \in 1..Len(s)}

RECURSIVE Concat(_)
Concat(ss) == IF ss = <<>> THEN <<>> ELSE Head(ss) \o Concat(Tail(ss))

----------------------------------------------------------------------------
(* findCoreFiles (cmd/core.go:155-183) *)

\* The file names a core directory may hold, in the lexical order in which
\* filepath.Glob returns its matches.
DirNames == <<"core.1", "core.core">>

\* patterns (cmd/core.go:166-172)
patterns == <<"core.*", "*.core", "core", "core-*", "**/core-*-*-*-*-*">>

\* filepath.Match of a name of DirNames against a pattern of patterns.
Match(pattern, name) ==
    <<pattern, name>> \in { <<"core.*", "core.1">>,
                            <<"core.*", "core.core">>,
                            <<"*.core", "core.core">> }

\* filepath.Glob(filepath.Join(path, pattern)) in a directory holding `names`.
Glob(names, pattern) ==
    SelectSeq(DirNames, LAMBDA n : n \in names /\ Match(pattern, n))

\* The paths an invocation may name: a missing path, one core file, or a
\* directory holding some of DirNames.
Paths ==
    {[kind |-> "missing", names |-> {}], [kind |-> "file", names |-> {"core.1"}]}
    \cup {[kind |-> "dir", names |-> ns] : ns \in SUBSET Range(DirNames)}

\* findCoreFiles: [err, files]
findCoreFiles(path) ==
    IF path.kind = "missing" THEN [err |-> TRUE, files |-> <<>>]
    ELSE IF path.kind = "file"
         THEN [err |-> FALSE, files |-> <<CHOOSE n \in path.names : TRUE>>]
    ELSE [err |-> FALSE,
          files |-> Concat([i \in 1..Len(patterns) |-> Glob(path.names, patterns[i])])]

\* The longest list findCoreFiles can return here: the number of tasks.
MaxTasks == Len(findCoreFiles([kind |-> "dir", names |-> Range(DirNames)]).files)
Tasks == 1..MaxTasks

\* Values of the --max-cores flag (0: no limit).
MaxCoresValues == {0, 2}

----------------------------------------------------------------------------
(* runCoreAnalysis (cmd/core.go:75-150) *)

Envs ==
    [formatOk : BOOLEAN, mkdirOk : BOOLEAN, gphomeSet : BOOLEAN,
     path : Paths, maxCores : MaxCoresValues, compareFlag : BOOLEAN,
     gdbStyleOutput : BOOLEAN]

RunInit ==
    /\ env \in Envs
    /\ pc = "start"
    /\ coreFiles = <<>>
    /\ nextFile = 1
    /\ wg = 0
    /\ mu = 0
    /\ analyses = <<>>
    /\ taskPc = [i \in Tasks |-> "idle"]
    /\ outcome = [i \in Tasks |-> "pending"]
    /\ tmp = [i \in Tasks |-> <<>>]
    /\ saved = [i \in Tasks |-> "none"]
    /\ ret = "running"
    /\ compared = <<>>
    /\ clock = 0
    /\ files = <<>>
    /\ stdout = <<>>

\* An environment error: the checks of cmd/core.go:76-98.
EnvError(e) ==
    \/ ~e.formatOk
    \/ ~e.mkdirOk
    \/ ~e.gphomeSet
    \/ findCoreFiles(e.path).err
    \/ Len(findCoreFiles(e.path).files) = 0

\* cmd/core.go:76-103: validateFormat, MkdirAll, GPHOME, findCoreFiles, the
\* empty-list check and the maxCores cut; no task exists yet.
Setup ==
    /\ pc = "start"
    /\ IF EnvError(env)
       THEN /\ ret' = "error"
            /\ pc' = "done"
            /\ UNCHANGED coreFiles
       ELSE /\ LET found == findCoreFiles(env.path).files IN
               coreFiles' = IF env.maxCores > 0 /\ Len(found) > env.maxCores
                            THEN SubSeq(found, 1, env.maxCores)
                            ELSE found
            /\ pc' = "spawn"
            /\ UNCHANGED ret
    /\ UNCHANGED <<env, nextFile, wg, mu, analyses, taskPc, outcome, tmp, saved,
                   compared>>
    /\ UNCHANGED <<outVars, analyzeVars, dedupVars, compareVars, signalVars, classifyVars,
                   pureVars>>

\* cmd/core.go:110-133: one iteration of the range loop: wg.Add(1); go func(cf).
Spawn ==
    /\ pc = "spawn"
    /\ nextFile <= Len(coreFiles)
    /\ wg' = wg + 1
    /\ taskPc' = [taskPc EXCEPT ![nextFile] = "stat"]
    /\ nextFile' = nextFile + 1
    /\ UNCHANGED <<env, pc, coreFiles, mu, analyses, outcome, tmp, saved, ret,
                   compared>>
    /\ UNCHANGED <<outVars, analyzeVars, dedupVars, compareVars, signalVars, classifyVars,
                   pureVars>>

\* The range loop is over: the main goroutine reaches wg.Wait().
SpawnDone ==
    /\ pc = "spawn"
    /\ nextFile > Len(coreFiles)
    /\ pc' = "wait"
    /\ UNCHANGED <<env, coreFiles, nextFile, wg, mu, analyses, taskPc, outcome,
                   tmp, saved, ret, compared>>
    /\ UNCHANGED <<outVars, analyzeVars, dedupVars, compareVars, signalVars, classifyVars,
                   pureVars>>

\* A barrier that does not wait for the tasks.
WaitReturnsAtOnce == TRUE

\* wg.Wait() returns (cmd/core.go:135).
WaitReturns == wg = 0

Wait ==
    /\ pc = "wait"
    /\ WaitReturns
    /\ pc' = "check"
    /\ UNCHANGED <<env, coreFiles, nextFile, wg, mu, analyses, taskPc, outcome,
                   tmp, saved, ret, compared>>
    /\ UNCHANGED <<outVars, analyzeVars, dedupVars, compareVars, signalVars, classifyVars,
                   pureVars>>

\* A run that fails as soon as one file failed.
SomeNotAnalyzed == Len(analyses) < Len(coreFiles)

\* cmd/core.go:137: the test that makes the run fail after the barrier.
NoneAnalyzed == Len(analyses) = 0

\* cmd/core.go:137-149
Check ==
    /\ pc = "check"
    /\ IF NoneAnalyzed
       THEN ret' = "error" /\ pc' = "done"
       ELSE IF env.compareFlag /\ Len(analyses) > 1
            THEN ret' = ret /\ pc' = "compare"
            ELSE ret' = "nil" /\ pc' = "done"
    /\ UNCHANGED <<env, coreFiles, nextFile, wg, mu, analyses, taskPc, outcome,
                   tmp, saved, compared>>
    /\ UNCHANGED <<outVars, analyzeVars, dedupVars, compareVars, signalVars, classifyVars,
                   pureVars>>

\* cmd/core.go:143-149: compareCores(analyses), then saveComparison, whose
\* error is printed and not returned.
Compare ==
    /\ pc = "compare"
    /\ compared' = analyses
    /\ \E saveErr \in BOOLEAN : ret' = "nil"
    /\ pc' = "done"
    /\ UNCHANGED <<env, coreFiles, nextFile, wg, mu, analyses, taskPc, outcome,
                   tmp, saved>>
    /\ UNCHANGED <<outVars, analyzeVars, dedupVars, compareVars, signalVars, classifyVars,
                   pureVars>>

MainNext == Setup \/ Spawn \/ SpawnDone \/ Wait \/ Check \/ Compare

----------------------------------------------------------------------------
(* The per-file goroutine (cmd/core.go:112-132) and the failure points of  *)
(* analyzeCoreFile (unnamed/part_000:38-94)                                 *)

\* The step after each external call of analyzeCoreFile, and the error the
\* call can end with.
AfterCall == [stat |-> "file", file |-> "pgstat", pgstat |-> "gdb", gdb |-> "lock"]
CallSteps == {"stat", "file", "pgstat", "gdb"}

\* A failure that ends every running task, as an exit of the process would.
FailedAbortsAll(i) == [j \in Tasks |-> IF taskPc[j] = "idle" THEN "idle" ELSE "done"]

\* A failed call: `return analysis, err`, the caller prints the error and
\* returns, and the deferred wg.Done() runs.  Only task i's position changes.
FailedTaskPc(i) == [taskPc EXCEPT ![i] = "done"]

\* One external call of analyzeCoreFile in task i: os.Stat(corePath), the
\* file probe, os.Stat(postgresPath) (getPostgresInfo never fails) and the
\* debugger run followed by the pure post-parse passes.
Call(i) ==
    /\ taskPc[i] \in CallSteps
    /\ \E ok \in BOOLEAN :
          IF ok
          THEN /\ taskPc' = [taskPc EXCEPT ![i] = AfterCall[taskPc[i]]]
               /\ outcome' = [outcome EXCEPT ![i] =
                                 IF taskPc[i] = "gdb" THEN "ok" ELSE @]
               /\ UNCHANGED wg
          ELSE /\ taskPc' = FailedTaskPc(i)
               /\ outcome' = [outcome EXCEPT ![i] = taskPc[i]]
               /\ wg' = wg - 1
    /\ UNCHANGED <<env, pc, coreFiles, nextFile, mu, analyses, tmp, saved, ret,
                   compared>>
    /\ UNCHANGED <<outVars, analyzeVars, dedupVars, compareVars, signalVars, classifyVars,
                   pureVars>>

\* A lock that excludes nobody.
LockAlwaysFree(i) == TRUE

\* mu.Lock() may return in task i (cmd/core.go:124).
LockFree(i) == mu = 0

Lock(i) ==
    /\ taskPc[i] = "lock"
    /\ LockFree(i)
    /\ mu' = i
    /\ taskPc' = [taskPc EXCEPT ![i] = "read"]
    /\ UNCHANGED <<env, pc, coreFiles, nextFile, wg, analyses, outcome, tmp,
                   saved, ret, compared>>
    /\ UNCHANGED <<outVars, analyzeVars, dedupVars, compareVars, signalVars, classifyVars,
                   pureVars>>

\* analyses = append(analyses, analysis) (cmd/core.go:125): append reads the
\* slice header ...
AppendRead(i) ==
    /\ taskPc[i] = "read"
    /\ tmp' = [tmp EXCEPT ![i] = analyses]
    /\ taskPc' = [taskPc EXCEPT ![i] = "write"]
    /\ UNCHANGED <<env, pc, coreFiles, nextFile, wg, mu, analyses, outcome,
                   saved, ret, compared>>
    /\ UNCHANGED <<outVars, analyzeVars, dedupVars, compareVars, signalVars, classifyVars,
                   pureVars>>

\* ... and the assignment stores the extended slice.
AppendWrite(i) ==
    /\ taskPc[i] = "write"
    /\ analyses' = Append(tmp[i], [task |-> i, CoreFile |-> coreFiles[i]])
    /\ taskPc' = [taskPc EXCEPT ![i] = "unlock"]
    /\ UNCHANGED <<env, pc, coreFiles, nextFile, wg, mu, outcome, tmp, saved,
                   ret, compared>>
    /\ UNCHANGED <<outVars, analyzeVars, dedupVars, compareVars, signalVars, classifyVars,
                   pureVars>>

\* mu.Unlock() (cmd/core.go:126)
Unlock(i) ==
    /\ taskPc[i] = "unlock"
    /\ mu' = IF mu = i THEN 0 ELSE mu
    /\ taskPc' = [taskPc EXCEPT ![i] = "save"]
    /\ UNCHANGED <<env, pc, coreFiles, nextFile, wg, analyses, outcome, tmp,
                   saved, ret, compared>>
    /\ UNCHANGED <<outVars, analyzeVars, dedupVars, compareVars, signalVars, classifyVars,
                   pureVars>>

\* Seconds a run can last after its start.
MaxSeconds == 1

\* time.Now().Format("20060102_150405") (unnamed/part_007:398) for a time t
\* seconds after 2024-05-01 10:00:00.
Stamp(t) == "20240501_10000" \o ToString(t)

\* filepath.Join(outputDir, fmt.Sprintf("core_analysis_%s.%s", timestamp,
\* formatFlag)) (unnamed/part_007:399); formatFlag is the same in all tasks.
AnalysisFileName(t) == "core_analysis_" \o Stamp(t) \o ".json"

\* os.WriteFile(filename, data, 0644) by task i: creates or overwrites.
WriteFile(dir, filename, i) ==
    [name \in DOMAIN dir \cup {filename} |->
        IF name = filename
        THEN (IF name \in DOMAIN dir THEN dir[name] ELSE <<>>) \o <<i>>
        ELSE dir[name]]

\* saveOrPrintAnalysis without --gdb-style (cmd/core.go:129-131,
\* cmd/core_printer.go:41-52): saveAnalysis reads the clock, which does not
\* run backwards, names the file after the second and writes it; its error
\* is printed only; the goroutine ends and the deferred wg.Done() runs.
Save(i) ==
    /\ taskPc[i] = "save"
    /\ ~env.gdbStyleOutput
    /\ \E ok \in BOOLEAN, t \in clock..MaxSeconds :
          /\ saved' = [saved EXCEPT ![i] = IF ok THEN "ok" ELSE "error"]
          /\ clock' = t
          /\ files' = IF ok THEN WriteFile(files, AnalysisFileName(t), i) ELSE files
    /\ taskPc' = [taskPc EXCEPT ![i] = "done"]
    /\ wg' = wg - 1
    /\ UNCHANGED <<env, pc, coreFiles, nextFile, mu, analyses, outcome, tmp, ret,
                   compared, stdout>>
    /\ UNCHANGED <<analyzeVars, dedupVars, compareVars, signalVars, classifyVars,
                   pureVars>>

\* saveOrPrintAnalysis with --gdb-style (cmd/core_printer.go:41-44):
\* printGDBStyle begins with fmt.Println("Cloudberry Database Core Analysis")
\* (line 60) ...
PrintHeading(i) ==
    /\ taskPc[i] = "save"
    /\ env.gdbStyleOutput
    /\ stdout' = Append(stdout, [task |-> i, line |-> "heading"])
    /\ taskPc' = [taskPc EXCEPT ![i] = "report"]
    /\ UNCHANGED <<env, pc, coreFiles, nextFile, wg, mu, analyses, outcome, tmp,
                   saved, ret, compared, clock, files>>
    /\ UNCHANGED <<analyzeVars, dedupVars, compareVars, signalVars, classifyVars,
                   pureVars>>

\* ... and goes on with the writes of the report (cmd/core_printer.go:61-105),
\* taken as one; it returns nil, the goroutine ends and the deferred
\* wg.Done() runs.
PrintReport(i) ==
    /\ taskPc[i] = "report"
    /\ stdout' = Append(stdout, [task |-> i, line |-> "report"])
    /\ saved' = [saved EXCEPT ![i] = "ok"]
    /\ taskPc' = [taskPc EXCEPT ![i] = "done"]
    /\ wg' = wg - 1
    /\ UNCHANGED <<env, pc, coreFiles, nextFile, mu, analyses, outcome, tmp, ret,
                   compared, clock, files>>
    /\ UNCHANGED <<analyzeVars, dedupVars, compareVars, signalVars, classifyVars,
                   pureVars>>

TaskNext(i) ==
    Call(i) \/ Lock(i) \/ AppendRead(i) \/ AppendWrite(i) \/ Unlock(i) \/ Save(i)
       \/ PrintHeading(i) \/ PrintReport(i)

----------------------------------------------------------------------------
(* The debugger transcript.  A line is classified by the tests the parsers *)
(* apply to it: the thread-header expression threadRE, the prefix "#" with *)
(* the frame expression frameRE, the structured signal print siginfoRE.    *)

\* Function names that occur in frame lines.
FunctionNames == {"SigillSigsegvSigbus", "processQuery", "raise"}

\* strings.Contains(s, sub) for the function names above and the markers the
\* parsers look for.
Contains(s, sub) == s = sub

NoLine == [kind |-> "blank", id |-> "", lwp |-> "", star |-> FALSE, fn |-> "",
           signo |-> 0, code |-> 0, name |-> ""]

\* "Thread <id> (LWP <lwp>):", with the leading "* " of the current thread
\* when star is set.
HeaderLine(id, lwp, star) == [NoLine EXCEPT !.kind = "header", !.id = id, !.lwp = lwp,
                                            !.star = star]
\* "#<n>  0x1 in <fn> ()"
FrameLine(fn) == [NoLine EXCEPT !.kind = "frame", !.fn = fn]
\* A line that starts with "#" and does not match frameRE.
JunkLine == [NoLine EXCEPT !.kind = "junk"]
\* "$_siginfo = {si_signo = <signo>, ..., si_code = <code>, ...}"
SiginfoLine(signo, code) == [NoLine EXCEPT !.kind = "siginfo", !.signo = signo,
                                           !.code = code]
\* "Program terminated with signal ... Signal <signo> (<name>)"
SignalLine(signo, name) == [NoLine EXCEPT !.kind = "signal", !.signo = signo,
                                          !.name = name]

Lines ==
    {HeaderLine("1", "101", FALSE), HeaderLine("1", "102", TRUE),
     HeaderLine("2", "201", FALSE), HeaderLine("2", "202", TRUE)}
    \cup {FrameLine(fn) : fn \in FunctionNames}
    \cup {JunkLine, NoLine, SiginfoLine(6, 0)}

\* Longest transcript, in lines.
MaxLines == 4

RECURSIVE SeqsUpTo(_, _)
SeqsUpTo(S, n) ==
    IF n = 0 THEN {<<>>}
    ELSE LET shorter == SeqsUpTo(S, n - 1) IN
         shorter \cup {Append(q, x) : q \in {r \in shorter : Len(r) = n - 1}, x \in S}

Transcripts == SeqsUpTo(Lines, MaxLines)

----------------------------------------------------------------------------
(* cmd/core_parser_threads.go, cmd/core_parser_base.go *)

\* parseStackFrame (cmd/core_parser_threads.go:72-101): nil (<<>>) when the
\* frame expression does not match.
parseStackFrame(line) ==
    IF line.kind = "frame"
    THEN <<[Function |-> line.fn, Location |-> "0x1", Module |-> ""]>>
    ELSE <<>>

\* determineThreadRole (cmd/core_parser_threads.go:133-152)
determineThreadRole(backtrace) ==
    IF \E k \in 1..Len(backtrace) : Contains(backtrace[k].Function, "SigillSigsegvSigbus")
    THEN "Signal Handler"
    ELSE IF \E k \in 1..Len(backtrace) :
               \/ Contains(backtrace[k].Function, "rxThreadFunc")
               \/ Contains(backtrace[k].Function, "txThreadFunc")
         THEN LET k == CHOOSE m \in 1..Len(backtrace) :
                          /\ \/ Contains(backtrace[m].Function, "rxThreadFunc")
                             \/ Contains(backtrace[m].Function, "txThreadFunc")
                          /\ \A n \in 1..(m - 1) :
                                /\ ~Contains(backtrace[n].Function, "rxThreadFunc")
                                /\ ~Contains(backtrace[n].Function, "txThreadFunc")
              IN IF Contains(backtrace[k].Function, "rxThreadFunc")
                 THEN "Interconnect RX" ELSE "Interconnect TX"
    ELSE ""

\* A deduplication that keeps the last occurrence of a thread id.
RECURSIVE deduplicateThreadsKeepLast(_)
deduplicateThreadsKeepLast(threads) ==
    IF threads = <<>> THEN <<>>
    ELSE LET rest == Tail(threads) IN
         IF \E k \in 1..Len(rest) : rest[k].ThreadID = Head(threads).ThreadID
         THEN deduplicateThreadsKeepLast(rest)
         ELSE <<Head(threads)>> \o deduplicateThreadsKeepLast(rest)

\* The loop of deduplicateThreads: `seen` is the map, `result` the output.
RECURSIVE dedupThreadsLoop(_, _, _)
dedupThreadsLoop(threads, seen, result) ==
    IF threads = <<>> THEN result
    ELSE LET thread == Head(threads) IN
         IF thread.ThreadID \notin seen
         THEN dedupThreadsLoop(Tail(threads), seen \cup {thread.ThreadID},
                               Append(result, thread))
         ELSE dedupThreadsLoop(Tail(threads), seen, result)

\* A deduplication whose loop starts at the second element.
deduplicateThreadsFromSecond(threads) ==
    IF threads = <<>> THEN <<>> ELSE dedupThreadsLoop(Tail(threads), {}, <<>>)

\* deduplicateThreads (cmd/core_parser_base.go:141-152)
deduplicateThreads(threads) == dedupThreadsLoop(threads, {}, <<>>)

\* A frame put in front of the backtrace instead of behind it.
PrependFrame(backtrace, frame) == <<frame>> \o backtrace

\* currentThread.Backtrace = append(currentThread.Backtrace, *frame)
\* (cmd/core_parser_threads.go:180)
AppendFrame(backtrace, frame) == Append(backtrace, frame)

\* The thread a header line opens (cmd/core_parser_threads.go:172-176).
NewThread(line) ==
    [ThreadID |-> line.id, LWPID |-> line.lwp, Name |-> "", State |-> "",
     IsCrashed |-> line.star, Backtrace |-> <<>>]

\* Closing the current thread (cmd/core_parser_threads.go:166-170, 185-189):
\* cur is <<>> for a nil currentThread.
CloseThread(threads, cur) ==
    IF cur = <<>> THEN threads
    ELSE Append(threads, [cur[1] EXCEPT !.Name = determineThreadRole(cur[1].Backtrace)])

\* The line scan of parseThreads (cmd/core_parser_threads.go:164-189).
RECURSIVE scanThreads(_, _, _)
scanThreads(lines, threads, cur) ==
    IF lines = <<>> THEN CloseThread(threads, cur)
    ELSE LET line == Head(lines) IN
         IF line.kind = "header"
         THEN scanThreads(Tail(lines), CloseThread(threads, cur), <<NewThread(line)>>)
         ELSE IF cur # <<>> /\ line.kind \in {"frame", "junk"}
                 /\ parseStackFrame(line) # <<>>
         THEN scanThreads(Tail(lines), threads,
                 <<[cur[1] EXCEPT !.Backtrace =
                                     AppendFrame(@, parseStackFrame(line)[1])]>>)
         ELSE scanThreads(Tail(lines), threads, cur)

\* parseThreads (cmd/core_parser_threads.go:159-193)
parseThreads(output) == deduplicateThreads(scanThreads(output, <<>>, <<>>))

\* The line scan of parseStackTrace (cmd/core_parser_base.go:83-114): a line
\* that begins with "Thread" opens the trace, an empty line closes it.
RECURSIVE scanStackTrace(_, _, _)
scanStackTrace(lines, frames, inStackTrace) ==
    IF lines = <<>> THEN frames
    ELSE LET line == Head(lines) IN
         IF line.kind = "header" /\ ~line.star
         THEN scanStackTrace(Tail(lines), frames, TRUE)
         ELSE IF inStackTrace /\ line.kind = "frame"
         THEN scanStackTrace(Tail(lines), Append(frames, parseStackFrame(line)[1]), TRUE)
         ELSE IF inStackTrace /\ line = NoLine
         THEN scanStackTrace(Tail(lines), frames, FALSE)
         ELSE scanStackTrace(Tail(lines), frames, inStackTrace)

\* parseStackTrace (cmd/core_parser_base.go:78-117)
parseStackTrace(output) == scanStackTrace(output, <<>>, FALSE)

\* skipFuncs (cmd/core_parser_base.go:160-167)
skipFuncs == {"raise", "clone", "start_thread", "poll", "select", "epoll_wait"}

\* findKeyFunction (cmd/core_parser_base.go:159-175)
findKeyFunction(backtrace) ==
    LET keys == {k \in 1..Len(backtrace) :
                    backtrace[k].Function \notin skipFuncs /\ backtrace[k].Function # "??"}
    IN IF keys = {} THEN ""
       ELSE backtrace[CHOOSE k \in keys : \A m \in keys : k <= m].Function

----------------------------------------------------------------------------
(* cmd/core_parser_signal.go *)

\* signalMap (cmd/core_parser_signal.go:13-26)
signalMap ==
    [n \in {1, 2, 3, 4, 6, 7, 8, 9, 11, 13, 14, 15} |->
        CASE n = 1 -> "SIGHUP" [] n = 2 -> "SIGINT" [] n = 3 -> "SIGQUIT"
          [] n = 4 -> "SIGILL" [] n = 6 -> "SIGABRT" [] n = 7 -> "SIGBUS"
          [] n = 8 -> "SIGFPE" [] n = 9 -> "SIGKILL" [] n = 11 -> "SIGSEGV"
          [] n = 13 -> "SIGPIPE" [] n = 14 -> "SIGALRM" [] n = 15 -> "SIGTERM"]

\* signalCodeMap (cmd/core_parser_signal.go:29-51)
signalCodeMap ==
    [n \in {7, 8, 11} |->
        CASE n = 11 -> (1 :> "SEGV_MAPERR (Address not mapped to object)"
                     @@ 2 :> "SEGV_ACCERR (Invalid permissions for mapped object)"
                     @@ 3 :> "SEGV_BNDERR (Failed address bound checks)"
                     @@ 4 :> "SEGV_PKUERR (Access was denied by memory protection keys)")
          [] n = 7 -> (1 :> "BUS_ADRALN (Invalid address alignment)"
                    @@ 2 :> "BUS_ADRERR (Nonexistent physical address)"
                    @@ 3 :> "BUS_OBJERR (Object-specific hardware error)")
          [] n = 8 -> (1 :> "FPE_INTDIV (Integer divide by zero)"
                    @@ 2 :> "FPE_INTOVF (Integer overflow)"
                    @@ 3 :> "FPE_FLTDIV (Floating point divide by zero)"
                    @@ 4 :> "FPE_FLTOVF (Floating point overflow)"
                    @@ 5 :> "FPE_FLTUND (Floating point underflow)"
                    @@ 6 :> "FPE_FLTRES (Floating point inexact result)"
                    @@ 7 :> "FPE_FLTINV (Invalid floating point operation)"
                    @@ 8 :> "FPE_FLTSUB (Subscript out of range)")]

\* A lookup that returns the map's zero value for a number not in signalMap.
getSignalNameNoDefault(signo) ==
    IF signo \in DOMAIN signalMap THEN signalMap[signo] ELSE ""

\* getSignalName (cmd/core_parser_signal.go:73-78)
getSignalName(signo) ==
    IF signo \in DOMAIN signalMap THEN signalMap[signo]
    ELSE "SIGNAL_" \o ToString(signo)

\* The basic description of a signal (cmd/core_parser_signal.go:85-96).
BasicDescription(signo) ==
    CASE signo = 11 -> "Segmentation fault"
      [] signo = 6 -> "Process abort signal (possibly assertion failure)"
      [] signo = 7 -> "Bus error"
      [] signo = 8 -> "Floating point exception"
      [] OTHER -> "Signal " \o ToString(signo)

\* getSignalDescription (cmd/core_parser_signal.go:81-108)
getSignalDescription(signo, code) ==
    LET basic == BasicDescription(signo)
    IN IF signo \in DOMAIN signalCodeMap
       THEN IF code \in DOMAIN signalCodeMap[signo]
            THEN basic \o " - " \o signalCodeMap[signo][code]
            ELSE IF code # 0 THEN basic \o " (code " \o ToString(code) \o ")"
            ELSE basic
       ELSE basic

\* The zero SignalInfo.
NoSignalInfo == [SignalNumber |-> 0, SignalCode |-> 0, SignalName |-> "",
                 SignalDescription |-> ""]

\* parseSignalInfo (cmd/core_parser_signal.go:54-70): the first structured
\* signal print of the output, if any.
parseSignalInfo(output) ==
    LET hits == {k \in 1..Len(output) : output[k].kind = "siginfo"} IN
    IF hits = {} THEN NoSignalInfo
    ELSE LET line == output[CHOOSE k \in hits : \A m \in hits : k <= m] IN
         [SignalNumber |-> line.signo, SignalCode |-> line.code,
          SignalName |-> getSignalName(line.signo),
          SignalDescription |-> getSignalDescription(line.signo, line.code)]

\* Some frame of some thread is the signal trampoline
\* (cmd/core_parser_signal.go:205-207).
HasTrampoline(threads) ==
    \E i \in 1..Len(threads) : \E k \in 1..Len(threads[i].Backtrace) :
       Contains(threads[i].Backtrace[k].Function, "SigillSigsegvSigbus")

\* An inner loop that does not pass over the crashed threads.
InferredDescriptionOfAnyThread(threads) ==
    LET cands == {i \in 1..Len(threads) :
                     /\ Len(threads[i].Backtrace) > 0
                     /\ findKeyFunction(threads[i].Backtrace) # ""}
    IN IF cands = {} THEN "Segmentation fault"
       ELSE LET t == threads[CHOOSE i \in cands : \A j \in cands : i <= j] IN
            "Segmentation fault in " \o findKeyFunction(t.Backtrace)
               \o " (thread: " \o t.Name \o ")"

\* The description the inner loop of detectSignalFromStack leaves
\* (cmd/core_parser_signal.go:210-224).
InferredDescription(threads) ==
    LET cands == {i \in 1..Len(threads) :
                     /\ ~threads[i].IsCrashed
                     /\ Len(threads[i].Backtrace) > 0
                     /\ findKeyFunction(threads[i].Backtrace) # ""}
    IN IF cands = {} THEN "Segmentation fault"
       ELSE LET t == threads[CHOOSE i \in cands : \A j \in cands : i <= j] IN
            "Segmentation fault in " \o findKeyFunction(t.Backtrace)
               \o " (thread: " \o t.Name \o ")"

\* detectSignalFromStack (cmd/core_parser_signal.go:204-228): every
\* trampoline frame found makes the same three assignments.
detectSignalFromStack(a) ==
    IF HasTrampoline(a.Threads)
    THEN [a EXCEPT !.SignalInfo.SignalNumber = 11,
                   !.SignalInfo.SignalName = "SIGSEGV",
                   !.SignalInfo.SignalDescription = InferredDescription(a.Threads)]
    ELSE a

----------------------------------------------------------------------------
(* cmd/core_gdb.go as in unnamed/part_000 *)

\* The key deduplicateStackTrace gives a frame (unnamed/part_000:106):
\* fmt.Sprintf("%s:%s:%s", frame.Function, frame.Location, frame.Module)
StackKey(frame) == frame.Function \o ":" \o frame.Location \o ":" \o frame.Module

\* A deduplication that keeps the last occurrence of a key.
RECURSIVE deduplicateStackTraceKeepLast(_)
deduplicateStackTraceKeepLast(frames) ==
    IF frames = <<>> THEN <<>>
    ELSE LET rest == Tail(frames) IN
         IF \E k \in 1..Len(rest) : StackKey(rest[k]) = StackKey(Head(frames))
         THEN deduplicateStackTraceKeepLast(rest)
         ELSE <<Head(frames)>> \o deduplicateStackTraceKeepLast(rest)

\* The loop of deduplicateStackTrace.
RECURSIVE dedupStackLoop(_, _, _)
dedupStackLoop(frames, seen, result) ==
    IF frames = <<>> THEN result
    ELSE LET frame == Head(frames) IN
         IF StackKey(frame) \notin seen
         THEN dedupStackLoop(Tail(frames), seen \cup {StackKey(frame)},
                             Append(result, frame))
         ELSE dedupStackLoop(Tail(frames), seen, result)

\* deduplicateStackTrace (unnamed/part_000:101-114)
deduplicateStackTrace(frames) == dedupStackLoop(frames, {}, <<>>)

\* parseGDBOutput (unnamed/part_000:225-240)
parseGDBOutput(output) ==
    [StackTrace |-> parseStackTrace(output),
     Threads |-> parseThreads(output),
     SignalInfo |-> parseSignalInfo(output)]

\* saveAnalysis (unnamed/part_007:397-434), up to the marshalling:
\* the threads are deduplicated, every thread with a trampoline frame is
\* marked crashed and every thread's role is recomputed.
saveAnalysis(a) ==
    LET threads == deduplicateThreads(a.Threads) IN
    [a EXCEPT !.Threads =
        [i \in 1..Len(threads) |->
            [threads[i] EXCEPT
                !.IsCrashed = @ \/ \E k \in 1..Len(threads[i].Backtrace) :
                                      Contains(threads[i].Backtrace[k].Function,
                                               "SigillSigsegvSigbus"),
                !.Name = determineThreadRole(threads[i].Backtrace)]]]

AnalyzeInit ==
    /\ apc = "gdb"
    /\ transcript \in Transcripts
    /\ analysis = [StackTrace |-> <<>>, Threads |-> <<>>, SignalInfo |-> NoSignalInfo]
    /\ parsed = NoSignalInfo
    /\ phases = <<>>
    /\ document = <<>>

\* gdbAnalysis succeeded (unnamed/part_000:80-82): parseGDBOutput built the
\* analysis; parseThreads ends with the thread deduplication.
GdbAnalysis ==
    /\ apc = "gdb"
    /\ analysis' = parseGDBOutput(transcript)
    /\ parsed' = parseSignalInfo(transcript)
    /\ phases' = Append(phases, "deduplicateThreads")
    /\ apc' = "dedup"
    /\ UNCHANGED <<transcript, document>>
    /\ UNCHANGED <<runVars, dedupVars, compareVars, signalVars, classifyVars, pureVars>>

\* unnamed/part_000:85
DeduplicateStackTrace ==
    /\ apc = "dedup"
    /\ analysis' = [analysis EXCEPT !.StackTrace = deduplicateStackTrace(@)]
    /\ phases' = Append(phases, "deduplicateStackTrace")
    /\ apc' = "detect"
    /\ UNCHANGED <<transcript, parsed, document>>
    /\ UNCHANGED <<runVars, dedupVars, compareVars, signalVars, classifyVars, pureVars>>

\* unnamed/part_000:88
DetectSignalFromStack ==
    /\ apc = "detect"
    /\ analysis' = detectSignalFromStack(analysis)
    /\ phases' = Append(phases, "detectSignalFromStack")
    /\ apc' = "enhance"
    /\ UNCHANGED <<transcript, parsed, document>>
    /\ UNCHANGED <<runVars, dedupVars, compareVars, signalVars, classifyVars, pureVars>>

\* unnamed/part_000:91-93: enhanceProcessInfo writes to BasicInfo only, and
\* analyzeCoreFile returns.
EnhanceProcessInfo ==
    /\ apc = "enhance"
    /\ phases' = Append(phases, "enhanceProcessInfo")
    /\ apc' = "save"
    /\ UNCHANGED <<transcript, analysis, parsed, document>>
    /\ UNCHANGED <<runVars, dedupVars, compareVars, signalVars, classifyVars, pureVars>>

\* saveOrPrintAnalysis -> saveAnalysis on its copy of the analysis
\* (cmd/core.go:129, cmd/core_printer.go:41-52).
SaveAnalysis ==
    /\ apc = "save"
    /\ document' = saveAnalysis(analysis)
    /\ apc' = "done"
    /\ UNCHANGED <<transcript, analysis, parsed, phases>>
    /\ UNCHANGED <<runVars, dedupVars, compareVars, signalVars, classifyVars, pureVars>>

AnalyzeNext ==
    GdbAnalysis \/ DeduplicateStackTrace \/ DetectSignalFromStack
       \/ EnhanceProcessInfo \/ SaveAnalysis

----------------------------------------------------------------------------

AnalyzeIdle ==
    /\ apc = "off"
    /\ transcript = <<>>
    /\ analysis = <<>>
    /\ parsed = <<>>
    /\ phases = <<>>
    /\ document = <<>>

(* deduplicateThreads and deduplicateStackTrace on bounded input lists *)

\* Longest list handed to a deduplication.
MaxDedupLen == 3

\* Frames whose components may hold the ':' that StackKey joins them with.
DedupFrames ==
    {[Function |-> "a:b", Location |-> "c", Module |-> "m"],
     [Function |-> "a", Location |-> "b:c", Module |-> "m"],
     [Function |-> "a", Location |-> "c", Module |-> "m"],
     [Function |-> "a", Location |-> "c", Module |-> ""]}

DedupThreads ==
    {[ThreadID |-> id, LWPID |-> lwp, Name |-> "", State |-> "",
      IsCrashed |-> FALSE, Backtrace |-> <<>>] : id \in {"1", "2"}, lwp \in {"101", "102"}}

DedupInit ==
    /\ dpc = "in"
    /\ dFrames \in SeqsUpTo(DedupFrames, MaxDedupLen)
    /\ dThreads \in SeqsUpTo(DedupThreads, MaxDedupLen)
    /\ dFramesOut = <<>>
    /\ dThreadsOut = <<>>
    /\ dFramesTwice = <<>>
    /\ dThreadsTwice = <<>>

\* analysis.StackTrace = deduplicateStackTrace(analysis.StackTrace)
ApplyDeduplicateStackTrace ==
    /\ dpc = "in"
    /\ dFramesOut' = deduplicateStackTrace(dFrames)
    /\ dpc' = "frames"
    /\ UNCHANGED <<dFrames, dThreads, dThreadsOut, dFramesTwice, dThreadsTwice>>
    /\ UNCHANGED <<runVars, analyzeVars, compareVars, signalVars, classifyVars, pureVars>>

\* return deduplicateThreads(threads)
ApplyDeduplicateThreads ==
    /\ dpc = "frames"
    /\ dThreadsOut' = deduplicateThreads(dThreads)
    /\ dpc' = "done"
    /\ UNCHANGED <<dFrames, dFramesOut, dThreads, dFramesTwice, dThreadsTwice>>
    /\ UNCHANGED <<runVars, analyzeVars, compareVars, signalVars, classifyVars, pureVars>>

\* The frame deduplication applied to its own output: saveAnalysis and
\* analyzeCoreFile both deduplicate lists that were deduplicated before.
ReapplyDeduplicateStackTrace ==
    /\ dpc = "done"
    /\ dFramesTwice' = deduplicateStackTrace(dFramesOut)
    /\ dpc' = "frames twice"
    /\ UNCHANGED <<dFrames, dFramesOut, dThreads, dThreadsOut, dThreadsTwice>>
    /\ UNCHANGED <<runVars, analyzeVars, compareVars, signalVars, classifyVars, pureVars>>

\* saveAnalysis applies deduplicateThreads to the list parseThreads already
\* deduplicated (unnamed/part_007:402).
ReapplyDeduplicateThreads ==
    /\ dpc = "frames twice"
    /\ dThreadsTwice' = deduplicateThreads(dThreadsOut)
    /\ dpc' = "twice"
    /\ UNCHANGED <<dFrames, dFramesOut, dThreads, dThreadsOut, dFramesTwice>>
    /\ UNCHANGED <<runVars, analyzeVars, compareVars, signalVars, classifyVars, pureVars>>

DedupNext ==
    \/ ApplyDeduplicateStackTrace \/ ApplyDeduplicateThreads
    \/ ReapplyDeduplicateStackTrace \/ ReapplyDeduplicateThreads

DedupIdle ==
    /\ dpc = "off"
    /\ dFrames = <<>>
    /\ dFramesOut = <<>>
    /\ dThreads = <<>>
    /\ dThreadsOut = <<>>
    /\ dFramesTwice = <<>>
    /\ dThreadsTwice = <<>>

----------------------------------------------------------------------------
(* cmd/core_parser_output.go as in unnamed/part_007: compareCores *)

\* The function names of the stack traces handed to compareCores.
CompareFunctions == {"processQuery", "execMain", "abort", "__GI_raise"}

\* strings.HasPrefix(s, prefix) for the names above and the prefixes of
\* isSystemFunction.
HasPrefix(s, prefix) == <<s, prefix>> \in {<<"__GI_raise", "__">>}

\* systemPrefixes (cmd/core_parser_base.go:183-188)
systemPrefixes == <<"std::", "__", "_Z", "pthread_">>

\* systemFunctions (cmd/core_parser_base.go:190-202)
systemFunctions ==
    {"main", "clone", "fork", "exec", "exit", "abort", "raise", "poll", "select",
     "read", "write"}

\* isSystemFunction (cmd/core_parser_base.go:182-215)
isSystemFunction(funcName) ==
    \/ funcName \in systemFunctions
    \/ \E k \in 1..Len(systemPrefixes) : HasPrefix(funcName, systemPrefixes[k])

\* The timestamps analyzeCoreFile writes: time.Now().Format(time.RFC3339)
\* (unnamed/part_000:40).
Timestamps == {"2024-05-01T10:00:01Z", "2024-05-01T10:00:02Z"}

\* time.Parse(time.RFC3339, s) as seconds after 2024-05-01T10:00:00Z; the zero
\* time.Time (year 1, written 0 here) when s does not parse.
timeParse(s) ==
    CASE s = "2024-05-01T10:00:01Z" -> 1
      [] s = "2024-05-01T10:00:02Z" -> 2
      [] OTHER -> 0

\* t.Format(time.RFC3339)
timeFormat(t) ==
    CASE t = 1 -> "2024-05-01T10:00:01Z"
      [] t = 2 -> "2024-05-01T10:00:02Z"
      [] OTHER -> "0001-01-01T00:00:00Z"

\* The loop that tracks the time range (unnamed/part_007:446-455); i is the
\* position in the list, 1 for the first element.
RECURSIVE timeRangeLoop(_, _, _, _)
timeRangeLoop(list, i, firstTime, lastTime) ==
    IF i > Len(list) THEN <<firstTime, lastTime>>
    ELSE LET t == timeParse(list[i].Timestamp) IN
         timeRangeLoop(list, i + 1,
                       IF i = 1 \/ t < firstTime THEN t ELSE firstTime,
                       IF i = 1 \/ t > lastTime THEN t ELSE lastTime)

\* comparison.TimeRange (unnamed/part_007:456-457)
TimeRange(list) ==
    LET range == timeRangeLoop(list, 1, 0, 0) IN
    [first |-> timeFormat(range[1]), last |-> timeFormat(range[2])]

\* comparison.CommonSignals (unnamed/part_007:462-463)
CommonSignals(list) ==
    [signal \in {list[i].SignalInfo.SignalName : i \in 1..Len(list)} |->
        Cardinality({i \in 1..Len(list) :
                        list[i].SignalInfo.SignalName = signal})]

\* The frames of all stack traces, as (a, frame) positions.
FramePositions(list) ==
    UNION {{<<i, k>> : k \in 1..Len(list[i].StackTrace)} : i \in 1..Len(list)}

\* comparison.CommonFunctions (unnamed/part_007:465-470)
CommonFunctions(list) ==
    LET counted == {p \in FramePositions(list) :
                       ~isSystemFunction(list[p[1]].StackTrace[p[2]].Function)}
    IN [function \in {list[p[1]].StackTrace[p[2]].Function : p \in counted} |->
           Cardinality({p \in counted :
                           list[p[1]].StackTrace[p[2]].Function = function})]

\* The loop that writes the signature (unnamed/part_007:475-479); i is the
\* index of the range loop, 0 for the first frame.
RECURSIVE signatureLoop(_, _, _)
signatureLoop(frames, i, signature) ==
    IF i >= Len(frames) THEN signature
    ELSE signatureLoop(frames, i + 1,
            IF i < 3 /\ ~isSystemFunction(frames[i + 1].Function)
            THEN signature \o "|" \o frames[i + 1].Function
            ELSE signature)

\* signature.String() (unnamed/part_007:472-480)
signature(a) ==
    signatureLoop(a.StackTrace, 0, a.SignalInfo.SignalName)

\* crashGroups (unnamed/part_007:460, 480): each signature with the analyses
\* that have it, in input order.
crashGroups(list) ==
    [sig \in {signature(list[i]) : i \in 1..Len(list)} |->
        SelectSeq(list, LAMBDA a : signature(a) = sig)]

\* strings.Join(parts, "|")
RECURSIVE Join(_)
Join(parts) ==
    IF Len(parts) = 1 THEN parts[1]
    ELSE parts[1] \o "|" \o Join(Tail(parts))

\* The signal names of the list handed to compareCores.
CompareSignals == {"SIGSEGV", "SIGABRT"}

\* The lists of "|"-free parts a signature of the model can be made of.
SplitCandidates ==
    {<<signal>> \o functions :
        signal \in CompareSignals, functions \in SeqsUpTo(CompareFunctions, 3)}

\* Each of these lists with its join.
SplitTable == {<<Join(parts), parts>> : parts \in SplitCandidates}

\* strings.Split(s, "|") (unnamed/part_007:486): the "|"-free parts whose
\* join is s.
Split(s) == (CHOOSE entry \in SplitTable : entry[1] = s)[2]

\* The pattern of one group (unnamed/part_007:487-496).
CrashPattern(sig, group) ==
    LET parts == Split(sig) IN
    [Signal |-> parts[1],
     StackSignature |-> Tail(parts),
     OccurrenceCount |-> Len(group),
     AffectedCoreFiles |-> [i \in 1..Len(group) |-> group[i].CoreFile]]

\* The range loop over crashGroups (unnamed/part_007:484-498), visiting the
\* signatures in the order `order`.
RECURSIVE generatePatterns(_, _, _)
generatePatterns(groups, order, result) ==
    IF order = <<>> THEN result
    ELSE LET sig == Head(order) IN
         generatePatterns(groups, Tail(order),
            IF Len(groups[sig]) > 1
            THEN Append(result, CrashPattern(sig, groups[sig]))
            ELSE result)

\* The less function handed to sort.Slice (unnamed/part_007:501-503).
less(data, i, j) == data[i].OccurrenceCount > data[j].OccurrenceCount

Swap(data, i, j) == [data EXCEPT ![i] = data[j], ![j] = data[i]]

\* sort.Slice on a slice of at most 12 elements is an insertion sort: element
\* j moves down while it is less than its predecessor.
RECURSIVE sinkLoop(_, _)
sinkLoop(data, j) ==
    IF j > 1 /\ less(data, j, j - 1) THEN sinkLoop(Swap(data, j, j - 1), j - 1)
    ELSE data

RECURSIVE insertionSort(_, _)
insertionSort(data, i) ==
    IF i > Len(data) THEN data ELSE insertionSort(sinkLoop(data, i), i + 1)

\* sort.Slice(comparison.CrashPatterns, ...) (unnamed/part_007:500-503)
sortSlice(data) == insertionSort(data, 2)

\* The enumerations of a set, as sequences without repetition.
Orders(S) ==
    {o \in [1..Cardinality(S) -> S] :
        \A i, j \in 1..Cardinality(S) : i # j => o[i] # o[j]}

\* The signatures the range loop over the map crashGroups does not skip.  Go
\* fixes no iteration order for a map; the order of the skipped signatures
\* does not show in the result.
RepeatedSignatures(list) ==
    {sig \in DOMAIN crashGroups(list) : Len(crashGroups(list)[sig]) > 1}

\* compareCores (unnamed/part_007:437-506) when the range loop over the map
\* visits the repeated signatures in the order `order`.
compareCores(list, order) ==
    [TotalCores |-> Len(list),
     CommonSignals |-> CommonSignals(list),
     CommonFunctions |-> CommonFunctions(list),
     TimeRange |-> TimeRange(list),
     CrashPatterns |-> sortSlice(generatePatterns(crashGroups(list), order, <<>>))]

\* Longest list handed to compareCores.
MaxAnalyses == 4

\* The stack traces of the list handed to compareCores.
CompareStacks ==
    {<<"processQuery", "execMain">>,
     <<"__GI_raise", "abort", "processQuery", "execMain">>}

CompareInputs ==
    [Timestamp : Timestamps, SignalName : CompareSignals, Stack : CompareStacks]

\* The CoreAnalysis of the i-th core file (cmd/core_types.go), with the fields
\* compareCores reads.
CoreAnalysis(i, input) ==
    [CoreFile |-> "core." \o ToString(i),
     Timestamp |-> input.Timestamp,
     SignalInfo |-> [SignalName |-> input.SignalName],
     StackTrace |-> [k \in 1..Len(input.Stack) |->
                        [Function |-> input.Stack[k], Location |-> "0x1",
                         Module |-> ""]]]

\* compareCores is called with more than one a (cmd/core.go:142).
CompareInit ==
    /\ cpc = "in"
    /\ \E n \in 2..MaxAnalyses : \E inputs \in [1..n -> CompareInputs] :
          cAnalyses = [i \in 1..n |-> CoreAnalysis(i, inputs[i])]
    /\ comparison = <<>>

\* comparison := compareCores(analyses) (cmd/core.go:143)
CompareCores ==
    /\ cpc = "in"
    /\ \E order \in Orders(RepeatedSignatures(cAnalyses)) :
          comparison' = compareCores(cAnalyses, order)
    /\ cpc' = "done"
    /\ UNCHANGED cAnalyses
    /\ UNCHANGED <<runVars, analyzeVars, dedupVars, signalVars, classifyVars, pureVars>>

CompareNext == CompareCores

CompareIdle ==
    /\ cpc = "off"
    /\ cAnalyses = <<>>
    /\ comparison = <<>>

----------------------------------------------------------------------------
(* The signal decoding of cmd/core_parser.go, which reads the output line  *)
(* by line and knows the textual announcement "Signal N (NAME)".           *)

\* signals (cmd/core_parser.go:167-179)
signals ==
    [n \in {1, 2, 3, 4, 6, 8, 9, 11, 13, 14, 15} |->
        CASE n = 1 -> "SIGHUP" [] n = 2 -> "SIGINT" [] n = 3 -> "SIGQUIT"
          [] n = 4 -> "SIGILL" [] n = 6 -> "SIGABRT" [] n = 8 -> "SIGFPE"
          [] n = 9 -> "SIGKILL" [] n = 11 -> "SIGSEGV" [] n = 13 -> "SIGPIPE"
          [] n = 14 -> "SIGALRM" [] n = 15 -> "SIGTERM"]

\* getSignalName (cmd/core_parser.go:166-184)
getSignalNameInCoreParser(signo) ==
    IF signo \in DOMAIN signals THEN signals[signo]
    ELSE "SIGNAL_" \o ToString(signo)

\* getSignalDescription (cmd/core_parser.go:187-234)
getSignalDescriptionInCoreParser(signo, code) ==
    CASE signo = 11 ->
            IF code \in DOMAIN signalCodeMap[11] THEN signalCodeMap[11][code]
            ELSE "SIGSEGV with code " \o ToString(code)
      [] signo = 6 -> "Process abort signal (possibly assertion failure)"
      [] signo = 7 ->
            IF code \in DOMAIN signalCodeMap[7] THEN signalCodeMap[7][code]
            ELSE "SIGBUS with code " \o ToString(code)
      [] signo = 8 ->
            IF code \in DOMAIN signalCodeMap[8] THEN signalCodeMap[8][code]
            ELSE "SIGFPE with code " \o ToString(code)
      [] OTHER -> "Signal " \o ToString(signo) \o " with code " \o ToString(code)

\* A textual announcement that is taken whatever was decoded before.
TextualAlways(info) == TRUE

\* The guard of the textual announcement (cmd/core_parser.go:155):
\* info.SignalName == ""
TextualAllowed(info) == info.SignalName = ""

\* The line loop of parseSignalInfo (cmd/core_parser.go:144-160).
RECURSIVE parseSignalLoop(_, _)
parseSignalLoop(lines, info) ==
    IF lines = <<>> THEN info
    ELSE LET line == Head(lines) IN
         IF line.kind = "siginfo"
         THEN parseSignalLoop(Tail(lines),
                 [SignalNumber |-> line.signo, SignalCode |-> line.code,
                  SignalName |-> getSignalNameInCoreParser(line.signo),
                  SignalDescription |->
                      getSignalDescriptionInCoreParser(line.signo, line.code)])
         ELSE IF line.kind = "signal" /\ TextualAllowed(info)
         THEN parseSignalLoop(Tail(lines),
                 [info EXCEPT !.SignalNumber = line.signo,
                              !.SignalName = line.name,
                              !.SignalDescription =
                                  getSignalDescriptionInCoreParser(line.signo, 0)])
         ELSE parseSignalLoop(Tail(lines), info)

\* parseSignalInfo (cmd/core_parser.go:138-163)
parseSignalInfoInCoreParser(output) == parseSignalLoop(output, NoSignalInfo)

\* The lines of an output that bear on the signal.
SignalLines ==
    {SiginfoLine(11, 1), SiginfoLine(6, 0), SignalLine(11, "SIGSEGV"),
     SignalLine(7, "SIGBUS"), NoLine}

\* Longest output handed to the signal decoding, in lines.
MaxSignalLines == 3

\* The signal numbers and codes handed to getSignalName and
\* getSignalDescription.
SignalNumbers == 0..15 \cup {99}
SignalCodes == 0..9

SignalInit ==
    /\ spc = "in"
    /\ sOutput \in SeqsUpTo(SignalLines, MaxSignalLines)
    /\ sSigno \in SignalNumbers
    /\ sCode \in SignalCodes
    /\ sInfo = <<>>
    /\ sInfoByLine = <<>>
    /\ sName = ""
    /\ sDescription = ""

\* analysis.SignalInfo = parseSignalInfo(output) (unnamed/part_000:236)
ParseSignalInfo ==
    /\ spc = "in"
    /\ sInfo' = parseSignalInfo(sOutput)
    /\ spc' = "parsed"
    /\ UNCHANGED <<sOutput, sSigno, sCode, sInfoByLine, sName, sDescription>>
    /\ UNCHANGED <<runVars, analyzeVars, dedupVars, compareVars, classifyVars, pureVars>>

\* parseSignalInfo of cmd/core_parser.go on the same output.
ParseSignalInfoInCoreParser ==
    /\ spc = "parsed"
    /\ sInfoByLine' = parseSignalInfoInCoreParser(sOutput)
    /\ spc' = "parsed twice"
    /\ UNCHANGED <<sOutput, sSigno, sCode, sInfo, sName, sDescription>>
    /\ UNCHANGED <<runVars, analyzeVars, dedupVars, compareVars, classifyVars, pureVars>>

\* info.SignalName = getSignalName(info.SignalNumber)
\* (cmd/core_parser_signal.go:62)
GetSignalName ==
    /\ spc = "parsed twice"
    /\ sName' = getSignalName(sSigno)
    /\ spc' = "named"
    /\ UNCHANGED <<sOutput, sSigno, sCode, sInfo, sInfoByLine, sDescription>>
    /\ UNCHANGED <<runVars, analyzeVars, dedupVars, compareVars, classifyVars, pureVars>>

\* info.SignalDescription = getSignalDescription(info.SignalNumber,
\* info.SignalCode) (cmd/core_parser_signal.go:63)
GetSignalDescription ==
    /\ spc = "named"
    /\ sDescription' = getSignalDescription(sSigno, sCode)
    /\ spc' = "described"
    /\ UNCHANGED <<sOutput, sSigno, sCode, sInfo, sInfoByLine, sName>>
    /\ UNCHANGED <<runVars, analyzeVars, dedupVars, compareVars, classifyVars, pureVars>>

SignalNext ==
    \/ ParseSignalInfo \/ ParseSignalInfoInCoreParser
    \/ GetSignalName \/ GetSignalDescription

SignalIdle ==
    /\ spc = "off"
    /\ sOutput = <<>>
    /\ sSigno = 0
    /\ sCode = 0
    /\ sInfo = <<>>
    /\ sInfoByLine = <<>>
    /\ sName = ""
    /\ sDescription = ""

----------------------------------------------------------------------------
(* cmd/core_parser_threads.go: getThreadSummary on bounded thread lists *)

\* summary[key]++ on a Go map: a missing key counts from zero.
Increment(summary, key) ==
    IF key \in DOMAIN summary
    THEN [summary EXCEPT ![key] = @ + 1]
    ELSE [k \in DOMAIN summary \cup {key} |-> IF k = key THEN 1 ELSE summary[k]]

\* fmt.Sprintf("Unknown (%s)", topFunc) (cmd/core_parser_threads.go:210)
UnknownLabel(topFunc) == "Unknown (" \o topFunc \o ")"

\* The body of the loop of getThreadSummary
\* (cmd/core_parser_threads.go:203-213).
summarizeThread(summary, thread) ==
    IF thread.Name # "Unknown"
    THEN Increment(summary, thread.Name)
    ELSE IF Len(thread.Backtrace) > 0
    THEN LET topFunc == thread.Backtrace[1].Function IN
         IF ~isSystemFunction(topFunc)
         THEN Increment(summary, UnknownLabel(topFunc))
         ELSE summary
    ELSE summary

\* The loop of getThreadSummary (cmd/core_parser_threads.go:202-214).
RECURSIVE summaryLoop(_, _)
summaryLoop(threads, summary) ==
    IF threads = <<>> THEN summary
    ELSE summaryLoop(Tail(threads), summarizeThread(summary, Head(threads)))

\* getThreadSummary (cmd/core_parser_threads.go:200-216); the empty map is
\* the function with the empty domain.
getThreadSummary(threads) == summaryLoop(threads, <<>>)

\* The backtraces of the threads handed to getThreadSummary, innermost frame
\* first: poll is a system function by name, __GI_raise by prefix.
SummaryBacktraces ==
    {<<>>, <<"processQuery">>, <<"poll", "processQuery">>,
     <<"__GI_raise", "processQuery">>, <<"rxThreadFunc">>}

\* Most threads in a list handed to getThreadSummary.
MaxSummaryThreads == 2

\* The frames of a backtrace given by its function names.
FramesOf(functions) ==
    [k \in 1..Len(functions) |->
        [Function |-> functions[k], Location |-> "0x1", Module |-> ""]]

\* The threads of the input: Name is what parseThreads wrote
\* (cmd/core_parser_threads.go:168, 187), or, for a thread with no role, the
\* "Unknown" that TestGetThreadSummary and the determineThreadRole of
\* unnamed/part_006:153 give it.
SummaryThreads ==
    {[ThreadID |-> "1", LWPID |-> "", Name |-> name, State |-> "",
      IsCrashed |-> FALSE, Backtrace |-> FramesOf(functions)] :
        <<functions, name>> \in
            {q \in SummaryBacktraces \X {"", "Unknown", "Interconnect RX"} :
                \/ q[2] = determineThreadRole(FramesOf(q[1]))
                \/ q[2] = "Unknown" /\ determineThreadRole(FramesOf(q[1])) = ""}}

SummaryInit ==
    /\ mpc = "in"
    /\ mThreads \in SeqsUpTo(SummaryThreads, MaxSummaryThreads)
    /\ mSummary = <<>>

\* result := getThreadSummary(tt.threads)
\* (cmd/core_parser_threads_test.go:246)
GetThreadSummary ==
    /\ mpc = "in"
    /\ mSummary' = getThreadSummary(mThreads)
    /\ mpc' = "done"
    /\ UNCHANGED <<mThreads, infoVars, saveVars, addressVars>>
    /\ UNCHANGED <<runVars, analyzeVars, dedupVars, compareVars, signalVars,
                   classifyVars>>

SummaryNext == GetThreadSummary

SummaryIdle ==
    /\ mpc = "off"
    /\ mThreads = <<>>
    /\ mSummary = <<>>

----------------------------------------------------------------------------
(* cmd/core_parser_info.go: parseBasicInfo and extractProcessInfo *)

\* The command line the file probe reports, "postgres:  <db>, <user> <name>
\* <address>(<pid>) con<n> seg<n> cmd<n> <kind>", by its fields; a field that
\* the command line does not have is "".
Cmdlines ==
    [prefix : {"postgres:", "sshd:"}, db : {"", "5432"},
     kind : {"", "coredw", "read_only coredw"}, seg : {"", "0"}, con : {"", "12"},
     cmd : {"", "3"}, address : {"", "10.0.0.1"}, pid : {"", "50012"}]

\* re.FindStringSubmatch(fileOutput)[1] for the expressions of parseBasicInfo
\* (cmd/core_parser_info.go:36-41) and of extractProcessInfo (lines 96-100,
\* 109) on such a command line; "" stands for no match.  `postgres:\s+(\d+)`
\* needs the prefix before the digits, and ipRE needs the parenthesis of the
\* pid after the address.
Submatch(key, cmdline) ==
    CASE key = "database_id" ->
            IF cmdline.prefix = "postgres:" THEN cmdline.db ELSE ""
      [] key = "segment_id" -> cmdline.seg
      [] key = "connection_id" -> cmdline.con
      [] key = "command_id" -> cmdline.cmd
      [] key = "client_pid" -> cmdline.pid
      [] key = "client_address" -> cmdline.address
      [] key = "ipRE" -> IF cmdline.pid # "" THEN cmdline.address ELSE ""
      [] OTHER -> ""

\* The keys of the map `patterns` of parseBasicInfo
\* (cmd/core_parser_info.go:35-42).
BasicPatterns ==
    {"database_id", "segment_id", "connection_id", "command_id", "client_pid",
     "client_address"}

\* info[key] on a Go map: "" for a missing key.
Get(info, key) == IF key \in DOMAIN info THEN info[key] ELSE ""

\* info[key] = value
Put(info, key, value) ==
    [k \in DOMAIN info \cup {key} |-> IF k = key THEN value ELSE info[k]]

\* strings.Join(parts, sep)
RECURSIVE JoinWith(_, _)
JoinWith(parts, sep) ==
    IF parts = <<>> THEN ""
    ELSE IF Len(parts) = 1 THEN parts[1]
    ELSE parts[1] \o sep \o JoinWith(Tail(parts), sep)

\* The entries the two loops of parseBasicInfo write
\* (cmd/core_parser_info.go:45-58): the capture, or "N/A" without a match.
\* No command line of the model carries a creation time.
PatternEntries(cmdline) ==
    [key \in BasicPatterns \cup {"core_time"} |->
        IF key # "core_time" /\ Submatch(key, cmdline) # ""
        THEN Submatch(key, cmdline) ELSE "N/A"]

\* parseBasicInfo (cmd/core_parser_info.go:31-70)
parseBasicInfo(cmdline) ==
    LET info == PatternEntries(cmdline) IN
    IF "database_id" \in DOMAIN info
    THEN Put(Put(info, "description",
                 "Coordinator Write (Read-Only Mode), Database " \o info["database_id"]
                 \o ", Segment " \o info["segment_id"]
                 \o ", Connection " \o info["connection_id"]
                 \o ", Client " \o info["client_address"]
                 \o " (PID " \o info["client_pid"] \o ")"),
             "process_type", "Coordinator Write (Read-Only Mode)")
    ELSE info

\* The entries extractProcessInfo reads from a command line that begins with
\* "postgres:" (cmd/core_parser_info.go:77-113); an entry without a match is
\* not written.
ProcessEntries(cmdline) ==
    LET found == [database_id |-> cmdline.db,
                  process_type |->
                      CASE cmdline.kind = "read_only coredw" ->
                              "Coordinator Write (Read-Only Mode)"
                        [] cmdline.kind = "coredw" -> "Coordinator Write Process"
                        [] OTHER -> "",
                  segment_id |-> Submatch("segment_id", cmdline),
                  connection_id |-> Submatch("connection_id", cmdline),
                  command_id |-> Submatch("command_id", cmdline),
                  client_pid |-> Submatch("client_pid", cmdline),
                  client_address |-> Submatch("ipRE", cmdline)]
    IN [key \in {k \in DOMAIN found : found[k] # ""} |-> found[key]]

\* The parts of the description extractProcessInfo puts together
\* (cmd/core_parser_info.go:115-134).
DescriptionParts(info) ==
    (IF Get(info, "process_type") # "" THEN <<Get(info, "process_type")>> ELSE <<>>)
    \o (IF Get(info, "database_id") # ""
        THEN <<"Database " \o Get(info, "database_id")>> ELSE <<>>)
    \o (IF Get(info, "segment_id") # ""
        THEN <<"Segment " \o Get(info, "segment_id")>> ELSE <<>>)
    \o (IF Get(info, "connection_id") # ""
        THEN <<"Connection " \o Get(info, "connection_id")>> ELSE <<>>)
    \o (IF Get(info, "client_address") # ""
        THEN IF Get(info, "client_pid") # ""
             THEN <<"Client " \o Get(info, "client_address") \o " (PID "
                    \o Get(info, "client_pid") \o ")">>
             ELSE <<"Client " \o Get(info, "client_address")>>
        ELSE <<>>)

\* extractProcessInfo (cmd/core_parser_info.go:76-139) on an empty map
extractProcessInfo(cmdline) ==
    LET info == IF cmdline.prefix = "postgres:" THEN ProcessEntries(cmdline) ELSE <<>>
        desc == DescriptionParts(info)
    IN IF Len(desc) > 0 THEN Put(info, "description", JoinWith(desc, ", ")) ELSE info

InfoInit ==
    /\ ipc = "in"
    /\ iCmdline \in Cmdlines
    /\ iBasicInfo = <<>>
    /\ iProcessInfo = <<>>

\* basicInfo := parseBasicInfo(analysis.FileInfo.FileOutput);
\* analysis.BasicInfo = basicInfo (cmd/core.go:121-122)
ParseBasicInfo ==
    /\ ipc = "in"
    /\ iBasicInfo' = parseBasicInfo(iCmdline)
    /\ ipc' = "attached"
    /\ UNCHANGED <<iCmdline, iProcessInfo, summaryVars, saveVars, addressVars>>
    /\ UNCHANGED <<runVars, analyzeVars, dedupVars, compareVars, signalVars,
                   classifyVars>>

\* extractProcessInfo(cmdline, info) (cmd/core_parser_info.go:277)
ExtractProcessInfo ==
    /\ ipc = "attached"
    /\ iProcessInfo' = extractProcessInfo(iCmdline)
    /\ ipc' = "done"
    /\ UNCHANGED <<iCmdline, iBasicInfo, summaryVars, saveVars, addressVars>>
    /\ UNCHANGED <<runVars, analyzeVars, dedupVars, compareVars, signalVars,
                   classifyVars>>

InfoNext == ParseBasicInfo \/ ExtractProcessInfo

InfoIdle ==
    /\ ipc = "off"
    /\ iCmdline = <<>>
    /\ iBasicInfo = <<>>
    /\ iProcessInfo = <<>>

----------------------------------------------------------------------------
(* saveAnalysis (unnamed/part_007 and cmd/core_parser.go) with the document *)
(* it writes, and json.Unmarshal / yaml.Unmarshal of that document          *)

\* The two source files that define saveAnalysis.
SaveSources == {"unnamed/part_007", "cmd/core_parser.go"}

\* analysis.FileInfo of the analyses handed to saveAnalysis; the first file
\* output is the one of TestSaveAnalysis, the second has the doubled quote
\* parseBasicInfo looks for.
SaveFileInfos ==
    [FileOutput : {"core file from 'postgres'", "core file from ''postgres''"},
     Created : {"", "2024-05-01T10:00:01Z"}]

\* strings.Split(strings.Split(FileOutput, "from ''")[1], "''")[0]
\* (cmd/core_parser_info.go:271-274); "" when the output has no "from ''".
CmdlineOf(fileOutput) ==
    IF fileOutput = "core file from ''postgres''" THEN "postgres" ELSE ""

\* t.Format("2006-01-02 15:04:05 MST") of the time timeParse returned
CoreTimeFormat(t) ==
    CASE t = 1 -> "2024-05-01 10:00:01 UTC"
      [] t = 2 -> "2024-05-01 10:00:02 UTC"
      [] OTHER -> "0001-01-01 00:00:00 UTC"

\* parseBasicInfo(fileInfo FileInfo) (cmd/core_parser_info.go:266-290): the
\* command line "postgres" has no "postgres:" prefix, so extractProcessInfo
\* writes nothing, and no file output here reports uids.
parseBasicInfoOfFileInfo(fileInfo) ==
    LET info == IF CmdlineOf(fileInfo.FileOutput) # ""
                THEN [cmdline |-> CmdlineOf(fileInfo.FileOutput)] ELSE <<>>
    IN IF timeParse(fileInfo.Created) # 0
       THEN Put(info, "core_time", CoreTimeFormat(timeParse(fileInfo.Created)))
       ELSE info

\* "Process information before saving" (unnamed/part_007:401-415)
processBeforeSaving(a) ==
    [saveAnalysis(a) EXCEPT !.BasicInfo = parseBasicInfoOfFileInfo(a.FileInfo)]

\* A StackFrame as document: the tag of Module has omitempty
\* (cmd/core_types.go:45-54).
MarshalFrame(frame) ==
    LET all == [location |-> frame.Location, function |-> frame.Function,
                module |-> frame.Module]
    IN [k \in DOMAIN all \ (IF frame.Module = "" THEN {"module"} ELSE {}) |-> all[k]]

UnmarshalFrame(doc) ==
    [Function |-> doc.function, Location |-> doc.location,
     Module |-> IF "module" \in DOMAIN doc THEN doc.module ELSE ""]

\* A ThreadInfo as document: name, state and is_crashed have omitempty
\* (cmd/core_types.go:57-65).
MarshalThread(thread) ==
    LET all == [thread_id |-> thread.ThreadID, lwp_id |-> thread.LWPID,
                name |-> thread.Name, state |-> thread.State,
                is_crashed |-> thread.IsCrashed,
                backtrace |-> [k \in 1..Len(thread.Backtrace) |->
                                  MarshalFrame(thread.Backtrace[k])]]
        omitted == (IF thread.Name = "" THEN {"name"} ELSE {})
                   \cup (IF thread.State = "" THEN {"state"} ELSE {})
                   \cup (IF ~thread.IsCrashed THEN {"is_crashed"} ELSE {})
    IN [k \in DOMAIN all \ omitted |-> all[k]]

UnmarshalThread(doc) ==
    [ThreadID |-> doc.thread_id, LWPID |-> doc.lwp_id,
     Name |-> IF "name" \in DOMAIN doc THEN doc.name ELSE "",
     State |-> IF "state" \in DOMAIN doc THEN doc.state ELSE "",
     IsCrashed |-> IF "is_crashed" \in DOMAIN doc THEN doc.is_crashed ELSE FALSE,
     Backtrace |-> [k \in 1..Len(doc.backtrace) |-> UnmarshalFrame(doc.backtrace[k])]]

\* json.MarshalIndent(analysis, "", "  ") / yaml.Marshal(analysis)
\* (unnamed/part_007:419-423) with the keys of cmd/core_types.go:23-35.
Marshal(a, format) ==
    [format |-> format,
     timestamp |-> a.Timestamp,
     core_file |-> a.CoreFile,
     file_info |-> [file_output |-> a.FileInfo.FileOutput,
                    created |-> a.FileInfo.Created],
     basic_info |-> a.BasicInfo,
     stack_trace |-> [k \in 1..Len(a.StackTrace) |-> MarshalFrame(a.StackTrace[k])],
     threads |-> [i \in 1..Len(a.Threads) |-> MarshalThread(a.Threads[i])],
     signal_info |-> [signal_number |-> a.SignalInfo.SignalNumber,
                      signal_code |-> a.SignalInfo.SignalCode,
                      signal_name |-> a.SignalInfo.SignalName,
                      signal_description |-> a.SignalInfo.SignalDescription]]

\* json.Unmarshal(data, &analysis) / yaml.Unmarshal(data, &analysis)
\* (unnamed/part_002:88, 114)
Unmarshal(data) ==
    [Timestamp |-> data.timestamp,
     CoreFile |-> data.core_file,
     FileInfo |-> [FileOutput |-> data.file_info.file_output,
                   Created |-> data.file_info.created],
     BasicInfo |-> data.basic_info,
     StackTrace |-> [k \in 1..Len(data.stack_trace) |->
                        UnmarshalFrame(data.stack_trace[k])],
     Threads |-> [i \in 1..Len(data.threads) |-> UnmarshalThread(data.threads[i])],
     SignalInfo |-> [SignalNumber |-> data.signal_info.signal_number,
                     SignalCode |-> data.signal_info.signal_code,
                     SignalName |-> data.signal_info.signal_name,
                     SignalDescription |-> data.signal_info.signal_description]]

\* The threads of the analyses handed to saveAnalysis: as parseThreads leaves
\* them, and with the name TestSaveAnalysis writes.
SaveThreads ==
    {[ThreadID |-> id, LWPID |-> "", Name |-> q[1], State |-> "",
      IsCrashed |-> crashed, Backtrace |-> FramesOf(q[2])] :
        id \in {"1", "2"}, crashed \in BOOLEAN,
        q \in {<<"", <<"processQuery">>>>, <<"Query Executor", <<"processQuery">>>>,
               <<"Signal Handler", <<"SigillSigsegvSigbus">>>>}}

\* Most threads of an analysis handed to saveAnalysis.
MaxSaveThreads == 2

\* analysis.BasicInfo of the input: none, or the one of TestSaveAnalysis.
SaveBasicInfos ==
    {<<>>, [description |-> "Query Executor", database_id |-> "5", segment_id |-> "1"]}

SaveInit ==
    /\ vpc = "in"
    /\ vSource \in SaveSources
    /\ vFormat \in {"json", "yaml"}
    /\ \E fileInfo \in SaveFileInfos, basicInfo \in SaveBasicInfos,
          threads \in SeqsUpTo(SaveThreads, MaxSaveThreads) :
          vAnalysis = [Timestamp |-> "2024-05-01T10:00:02Z",
                       CoreFile |-> "/tmp/core.1234",
                       FileInfo |-> fileInfo,
                       BasicInfo |-> basicInfo,
                       StackTrace |-> FramesOf(<<"processQuery">>),
                       Threads |-> threads,
                       SignalInfo |-> [SignalNumber |-> 11, SignalCode |-> 1,
                                       SignalName |-> "SIGSEGV",
                                       SignalDescription |-> ""]]
    /\ vData = <<>>
    /\ vRestored = <<>>

\* saveAnalysis(testAnalysis) (unnamed/part_002:135): the saveAnalysis of
\* unnamed/part_007:397-434 processes its copy of the analysis before the
\* marshalling, the one of cmd/core_parser.go:291-312 marshals it as it is.
SaveAnalysisToFile ==
    /\ vpc = "in"
    /\ vData' = IF vSource = "unnamed/part_007"
                THEN Marshal(processBeforeSaving(vAnalysis), vFormat)
                ELSE Marshal(vAnalysis, vFormat)
    /\ vpc' = "saved"
    /\ UNCHANGED <<vSource, vFormat, vAnalysis, vRestored, summaryVars, infoVars,
                   addressVars>>
    /\ UNCHANGED <<runVars, analyzeVars, dedupVars, compareVars, signalVars,
                   classifyVars>>

\* The validation of TestSaveAnalysis reads the file back
\* (unnamed/part_002:81-90, 107-116).
ReadBack ==
    /\ vpc = "saved"
    /\ vRestored' = Unmarshal(vData)
    /\ vpc' = "restored"
    /\ UNCHANGED <<vSource, vFormat, vAnalysis, vData, summaryVars, infoVars,
                   addressVars>>
    /\ UNCHANGED <<runVars, analyzeVars, dedupVars, compareVars, signalVars,
                   classifyVars>>

SaveNext == SaveAnalysisToFile \/ ReadBack

SaveIdle ==
    /\ vpc = "off"
    /\ vSource = ""
    /\ vFormat = ""
    /\ vAnalysis = <<>>
    /\ vData = <<>>
    /\ vRestored = <<>>

----------------------------------------------------------------------------
(* findAddressLibrary (cmd/core_parser_libraries.go) and                    *)
(* addFaultAddressContext (cmd/core_parser_signal.go); an address is the    *)
(* sequence of its characters                                               *)

\* The byte of a character, by which Go compares strings.
Ord(c) ==
    CASE c = "0" -> 48 [] c = "1" -> 49 [] c = "9" -> 57
      [] c = "A" -> 65 [] c = "a" -> 97 [] c = "x" -> 120

\* The value of a hexadecimal digit; -1 for a character that is none.
HexValue(c) ==
    CASE c = "0" -> 0 [] c = "1" -> 1 [] c = "9" -> 9
      [] c = "A" -> 10 [] c = "a" -> 10 [] OTHER -> -1

\* strings.ToLower(s)
ToLower(s) == [k \in 1..Len(s) |-> IF s[k] = "A" THEN "a" ELSE s[k]]

\* strings.HasPrefix(s, "0x")
HasPrefix0x(s) == Len(s) >= 2 /\ s[1] = "0" /\ s[2] = "x"

\* strings.TrimPrefix(s, "0x")
TrimPrefix0x(s) == IF HasPrefix0x(s) THEN SubSeq(s, 3, Len(s)) ELSE s

\* a <= b on Go strings: byte by byte, a proper prefix is the smaller one.
RECURSIVE StringLeq(_, _)
StringLeq(a, b) ==
    IF a = <<>> THEN TRUE
    ELSE IF b = <<>> THEN FALSE
    ELSE IF Ord(Head(a)) # Ord(Head(b)) THEN Ord(Head(a)) < Ord(Head(b))
    ELSE StringLeq(Tail(a), Tail(b))

\* The value of a string of hexadecimal digits.
RECURSIVE HexNumber(_, _)
HexNumber(digits, value) ==
    IF digits = <<>> THEN value
    ELSE HexNumber(Tail(digits), 16 * value + HexValue(Head(digits)))

\* strconv.ParseUint(s, 16, 64): [err, value]; the value is 0 with an error
\* (no number of the model exceeds 64 bits).
ParseUint(s) ==
    IF s = <<>> \/ \E k \in 1..Len(s) : HexValue(s[k]) < 0
    THEN [err |-> TRUE, value |-> 0]
    ELSE [err |-> FALSE, value |-> HexNumber(s, 0)]

\* A comparison of the numbers the strings write.
NumericLeq(a, b) == ParseUint(TrimPrefix0x(a)).value <= ParseUint(TrimPrefix0x(b)).value

\* The test of findAddressLibrary: addr >= start && addr <= end on strings
\* (cmd/core_parser_libraries.go:197).
InTextRange(addr, start, end) == StringLeq(start, addr) /\ StringLeq(addr, end)

\* The loop of findAddressLibrary (cmd/core_parser_libraries.go:193-200)
RECURSIVE findAddressLoop(_, _)
findAddressLoop(addr, libraries) ==
    IF libraries = <<>> THEN <<>>
    ELSE LET lib == Head(libraries) IN
         IF InTextRange(addr, ToLower(lib.TextStart), ToLower(lib.TextEnd))
         THEN <<lib>>
         ELSE findAddressLoop(addr, Tail(libraries))

\* findAddressLibrary (cmd/core_parser_libraries.go:187-203)
findAddressLibrary(address, libraries) ==
    findAddressLoop(ToLower(IF HasPrefix0x(address) THEN address
                            ELSE <<"0", "x">> \o address),
                    libraries)

\* The loop of addFaultAddressContext (cmd/core_parser_signal.go:159-166):
\* the name of the first library whose range holds addr, "" when none does.
RECURSIVE faultLibraryLoop(_, _)
faultLibraryLoop(addr, libraries) ==
    IF libraries = <<>> THEN ""
    ELSE LET lib == Head(libraries)
             start == ParseUint(TrimPrefix0x(lib.TextStart)).value
             end == ParseUint(TrimPrefix0x(lib.TextEnd)).value
         IN IF addr >= start /\ addr <= end THEN lib.Name
            ELSE faultLibraryLoop(addr, Tail(libraries))

\* addFaultAddressContext (cmd/core_parser_signal.go:152-172): the
\* description it leaves.
addFaultAddressContext(description, faultAddress, libraries) ==
    LET addr == ParseUint(TrimPrefix0x(faultAddress)) IN
    IF addr.err THEN description
    ELSE IF faultLibraryLoop(addr.value, libraries) # ""
    THEN description \o " (fault address in "
            \o faultLibraryLoop(addr.value, libraries) \o ")"
    ELSE IF description # ""
    THEN description \o " (fault address not in mapped memory)"
    ELSE description

\* The digits of the addresses.
AddressDigits == {"1", "9", "a", "A"}

\* Most digits of an address.
MaxAddressDigits == 2

\* The addresses: with and without the "0x" prefix, as in
\* TestFindAddressLibrary.
Addresses ==
    LET digits == SeqsUpTo(AddressDigits, MaxAddressDigits) \ {<<>>}
    IN digits \cup {<<"0", "x">> \o d : d \in digits}

\* The libraries: bounds as parseSharedLibraries reads them
\* (cmd/core_parser_libraries.go:80), and one written in capitals.
AddressLibraries ==
    {[Name |-> "lib1.so", TextStart |-> <<"0", "x", "1">>,
      TextEnd |-> <<"0", "x", "9">>],
     [Name |-> "lib2.so", TextStart |-> <<"0", "x", "1", "1">>,
      TextEnd |-> <<"0", "x", "1", "a">>],
     [Name |-> "lib3.so", TextStart |-> <<"0", "x", "9">>,
      TextEnd |-> <<"0", "x", "a", "a">>],
     [Name |-> "lib4.so", TextStart |-> <<"0", "x", "9", "A">>,
      TextEnd |-> <<"0", "x", "A", "A">>]}

\* Most libraries in a list.
MaxLibraries == 2

AddressInit ==
    /\ lpc = "in"
    /\ lAddress \in Addresses
    /\ lLibraries \in SeqsUpTo(AddressLibraries, MaxLibraries)
    /\ lFound = <<>>
    /\ lDescription = "Segmentation fault"

\* result := findAddressLibrary(tt.address, libraries) (unnamed/part_004:232)
FindAddressLibrary ==
    /\ lpc = "in"
    /\ lFound' = findAddressLibrary(lAddress, lLibraries)
    /\ lpc' = "found"
    /\ UNCHANGED <<lAddress, lLibraries, lDescription, summaryVars, infoVars, saveVars>>
    /\ UNCHANGED <<runVars, analyzeVars, dedupVars, compareVars, signalVars,
                   classifyVars>>

\* addFaultAddressContext(info, analysis) with the same address and list
AddFaultAddressContext ==
    /\ lpc = "found"
    /\ lDescription' = addFaultAddressContext(lDescription, lAddress, lLibraries)
    /\ lpc' = "done"
    /\ UNCHANGED <<lAddress, lLibraries, lFound, summaryVars, infoVars, saveVars>>
    /\ UNCHANGED <<runVars, analyzeVars, dedupVars, compareVars, signalVars,
                   classifyVars>>

AddressNext == FindAddressLibrary \/ AddFaultAddressContext

AddressIdle ==
    /\ lpc = "off"
    /\ lAddress = <<>>
    /\ lLibraries = <<>>
    /\ lFound = <<>>
    /\ lDescription = ""

PureIdle == SummaryIdle /\ InfoIdle /\ SaveIdle /\ AddressIdle

----------------------------------------------------------------------------
(* cmd/core_parser_libraries.go: categorizeLibrary; determineThreadRole on  *)
(* bounded backtraces                                                      *)

\* libraryCategories (cmd/core_parser_libraries.go:35-71), type and pattern.
libraryCategories ==
    <<[Type |-> "Core", Pattern |-> "libpostgres\\.so"],
      [Type |-> "Extension", Pattern |-> "/postgresql/.*\\.so"],
      [Type |-> "Interconnect", Pattern |-> "interconnect\\.so"],
      [Type |-> "Compression", Pattern |-> "(zlib|lz4|zstd|bzip2)"],
      [Type |-> "Security", Pattern |-> "(ssl|crypto|pam|krb5|gssapi|ldap|sasl)"],
      [Type |-> "System", Pattern |-> "^/lib"],
      [Type |-> "Runtime", Pattern |-> "(libc|libstdc\\+\\+|libgcc)"]>>

\* The library paths handed to categorizeLibrary.
LibraryPaths ==
    {"/usr/lib/libpostgres.so", "/usr/lib/postgresql/plpython3.so",
     "/usr/lib/postgresql/interconnect.so", "/usr/lib/interconnect.so",
     "/usr/lib/libzstd.so", "/usr/lib/libssl.so", "/lib/libssl.so.10",
     "/lib/libc.so.6", "/lib64/libz.so.1", "/usr/lib/libstdc++.so.6",
     "/usr/lib/libcrypto.so.1.1", "/usr/lib/libcurl.so.4",
     "/usr/lib/libunknown.so", ""}

\* regexp.MatchString(pattern, path) for the patterns of libraryCategories
\* and the paths above: the pattern matches somewhere in the path ("^/lib"
\* at its start).
MatchString(pattern, path) ==
    <<pattern, path>> \in
       {<<"libpostgres\\.so", "/usr/lib/libpostgres.so">>,
        <<"/postgresql/.*\\.so", "/usr/lib/postgresql/plpython3.so">>,
        <<"/postgresql/.*\\.so", "/usr/lib/postgresql/interconnect.so">>,
        <<"interconnect\\.so", "/usr/lib/postgresql/interconnect.so">>,
        <<"interconnect\\.so", "/usr/lib/interconnect.so">>,
        <<"(zlib|lz4|zstd|bzip2)", "/usr/lib/libzstd.so">>,
        <<"(ssl|crypto|pam|krb5|gssapi|ldap|sasl)", "/usr/lib/libssl.so">>,
        <<"(ssl|crypto|pam|krb5|gssapi|ldap|sasl)", "/lib/libssl.so.10">>,
        <<"(ssl|crypto|pam|krb5|gssapi|ldap|sasl)", "/usr/lib/libcrypto.so.1.1">>,
        <<"^/lib", "/lib/libssl.so.10">>,
        <<"^/lib", "/lib/libc.so.6">>,
        <<"^/lib", "/lib64/libz.so.1">>,
        <<"(libc|libstdc\\+\\+|libgcc)", "/lib/libc.so.6">>,
        <<"(libc|libstdc\\+\\+|libgcc)", "/usr/lib/libstdc++.so.6">>,
        <<"(libc|libstdc\\+\\+|libgcc)", "/usr/lib/libcrypto.so.1.1">>,
        <<"(libc|libstdc\\+\\+|libgcc)", "/usr/lib/libcurl.so.4">>}

\* The range loop of categorizeLibrary (cmd/core_parser_libraries.go:113-117)
\* over the categories from position i on.
RECURSIVE categorizeLoop(_, _)
categorizeLoop(path, i) ==
    IF i > Len(libraryCategories) THEN "Other"
    ELSE IF MatchString(libraryCategories[i].Pattern, path)
    THEN libraryCategories[i].Type
    ELSE categorizeLoop(path, i + 1)

\* A categorization in which a later matching category replaces an earlier
\* one.
categorizeLibraryLastMatch(path) ==
    LET matching == {i \in 1..Len(libraryCategories) :
                        MatchString(libraryCategories[i].Pattern, path)}
    IN IF matching = {} THEN "Other"
       ELSE libraryCategories[CHOOSE i \in matching : \A j \in matching : j <= i].Type

\* categorizeLibrary (cmd/core_parser_libraries.go:112-119)
categorizeLibrary(path) == categorizeLoop(path, 1)

\* The function names of the backtraces handed to determineThreadRole.
RoleFunctions == {"SigillSigsegvSigbus", "rxThreadFunc", "txThreadFunc", "processQuery"}

\* Longest backtrace handed to determineThreadRole, in frames.
MaxBacktrace == 3

ClassifyInit ==
    /\ kpc = "in"
    /\ kPath \in LibraryPaths
    /\ kBacktrace \in SeqsUpTo({[Function |-> f, Location |-> "0x1", Module |-> ""] :
                                   f \in RoleFunctions}, MaxBacktrace)
    /\ kType = ""
    /\ kRole = ""

\* Type: categorizeLibrary(libPath) (cmd/core_parser_libraries.go:93)
CategorizeLibrary ==
    /\ kpc = "in"
    /\ kType' = categorizeLibrary(kPath)
    /\ kpc' = "categorized"
    /\ UNCHANGED <<kPath, kBacktrace, kRole>>
    /\ UNCHANGED <<runVars, analyzeVars, dedupVars, compareVars, signalVars, pureVars>>

\* currentThread.Name = determineThreadRole(currentThread.Backtrace)
\* (cmd/core_parser_threads.go:168, 187)
DetermineThreadRole ==
    /\ kpc = "categorized"
    /\ kRole' = determineThreadRole(kBacktrace)
    /\ kpc' = "done"
    /\ UNCHANGED <<kPath, kBacktrace, kType>>
    /\ UNCHANGED <<runVars, analyzeVars, dedupVars, compareVars, signalVars, pureVars>>

ClassifyNext == CategorizeLibrary \/ DetermineThreadRole

ClassifyIdle ==
    /\ kpc = "off"
    /\ kPath = ""
    /\ kBacktrace = <<>>
    /\ kType = ""
    /\ kRole = ""

OtherIdle == CompareIdle /\ SignalIdle /\ ClassifyIdle /\ PureIdle

Init == RunInit /\ AnalyzeIdle /\ DedupIdle /\ OtherIdle

Next ==
    \/ Setup \/ Spawn \/ SpawnDone \/ Wait \/ Check \/ Compare
    \/ \E i \in Tasks : Call(i)
    \/ \E i \in Tasks : Lock(i)
    \/ \E i \in Tasks : AppendRead(i)
    \/ \E i \in Tasks : AppendWrite(i)
    \/ \E i \in Tasks : Unlock(i)
    \/ \E i \in Tasks : Save(i)
    \/ \E i \in Tasks : PrintHeading(i)
    \/ \E i \in Tasks : PrintReport(i)

Spec == Init /\ [][Next]_vars

RunIdle ==
    /\ env = <<>>
    /\ pc = "off"
    /\ coreFiles = <<>>
    /\ nextFile = 0
    /\ wg = 0
    /\ mu = 0
    /\ analyses = <<>>
    /\ taskPc = <<>>
    /\ outcome = <<>>
    /\ tmp = <<>>
    /\ saved = <<>>
    /\ ret = "off"
    /\ compared = <<>>
    /\ clock = 0
    /\ files = <<>>
    /\ stdout = <<>>

AnalyzeSpecInit == RunIdle /\ AnalyzeInit /\ DedupIdle /\ OtherIdle
AnalyzeSpec == AnalyzeSpecInit /\ [][AnalyzeNext]_vars

DedupSpecInit == RunIdle /\ AnalyzeIdle /\ DedupInit /\ OtherIdle
DedupSpec == DedupSpecInit /\ [][DedupNext]_vars

CompareSpecInit ==
    RunIdle /\ AnalyzeIdle /\ DedupIdle /\ CompareInit /\ SignalIdle /\ ClassifyIdle
    /\ PureIdle
CompareSpec == CompareSpecInit /\ [][CompareNext]_vars

SignalSpecInit ==
    RunIdle /\ AnalyzeIdle /\ DedupIdle /\ CompareIdle /\ SignalInit /\ ClassifyIdle
    /\ PureIdle
SignalSpec == SignalSpecInit /\ [][SignalNext]_vars

ClassifySpecInit ==
    RunIdle /\ AnalyzeIdle /\ DedupIdle /\ CompareIdle /\ SignalIdle /\ ClassifyInit
    /\ PureIdle
ClassifySpec == ClassifySpecInit /\ [][ClassifyNext]_vars

SummarySpecInit ==
    RunIdle /\ AnalyzeIdle /\ DedupIdle /\ CompareIdle /\ SignalIdle /\ ClassifyIdle
    /\ SummaryInit /\ InfoIdle /\ SaveIdle /\ AddressIdle
SummarySpec == SummarySpecInit /\ [][SummaryNext]_vars

InfoSpecInit ==
    RunIdle /\ AnalyzeIdle /\ DedupIdle /\ CompareIdle /\ SignalIdle /\ ClassifyIdle
    /\ SummaryIdle /\ InfoInit /\ SaveIdle /\ AddressIdle
InfoSpec == InfoSpecInit /\ [][InfoNext]_vars

SaveSpecInit ==
    RunIdle /\ AnalyzeIdle /\ DedupIdle /\ CompareIdle /\ SignalIdle /\ ClassifyIdle
    /\ SummaryIdle /\ InfoIdle /\ SaveInit /\ AddressIdle
SaveSpec == SaveSpecInit /\ [][SaveNext]_vars

AddressSpecInit ==
    RunIdle /\ AnalyzeIdle /\ DedupIdle /\ CompareIdle /\ SignalIdle /\ ClassifyIdle
    /\ SummaryIdle /\ InfoIdle /\ SaveIdle /\ AddressInit
AddressSpec == AddressSpecInit /\ [][AddressNext]_vars

\* The Go scheduler runs every runnable goroutine, and every external call
\* modelled here returns.
FairSpec == Spec /\ WF_vars(MainNext) /\ \A i \in Tasks : WF_vars(TaskNext(i))

----------------------------------------------------------------------------
(* Properties of runCoreAnalysis *)

Spawned == 1..Len(coreFiles)
Succeeded == {i \in Spawned : outcome[i] = "ok"}
Failed == {i \in Spawned : outcome[i] \in CallSteps}
Entries(i) == {k \in 1..Len(analyses) : analyses[k].task = i}
\* The main goroutine is past wg.Wait().
Joined == pc \in {"check", "compare"} \/ (pc = "done" /\ ~EnvError(env))

\* C1: a failure of one file's analysis (stat, file probe, missing postgres
\* binary, debugger error) ends that task only: every task that was started
\* runs to its end, and the task of every file whose analysis succeeded has
\* put its result into the collection by then.
C1_FailureIsolated ==
    \A i \in Tasks :
       (taskPc[i] # "idle") ~> (taskPc[i] = "done" /\ (outcome[i] = "ok" => Entries(i) # {}))

\* A finished run in which one file failed in the debugger and another file
\* was analyzed and is in the collection.
C1_Witness ==
    /\ pc = "done"
    /\ \E i, j \in Spawned :
          /\ outcome[i] = "gdb"
          /\ outcome[j] = "ok" /\ taskPc[j] = "done" /\ Entries(j) # {}

C3_ExitStatus ==
    pc = "done" =>
       /\ ret \in {"nil", "error"}
       /\ ret = "error" <=> (EnvError(env) \/ Succeeded = {})

\* A run that returns nil although one file failed and one save failed.
C3_Witness ==
    /\ pc = "done"
    /\ ret = "nil"
    /\ Failed # {}
    /\ \E i \in Succeeded : saved[i] = "error"

\* C4: compareCores runs behind the barrier: when the main goroutine is at
\* the comparison, or has done it, every task that was started has ended
\* (so none can append any more) and the comparison saw the whole collection.
C4_CompareAfterJoin ==
    /\ pc = "compare" => \A i \in Spawned : taskPc[i] = "done"
    /\ compared # <<>> => compared = analyses /\ \A i \in Spawned : taskPc[i] = "done"

\* The comparison has run over two results.
C4_Witness ==
    /\ pc = "done"
    /\ Len(compared) >= 2
    /\ Failed # {}

----------------------------------------------------------------------------
(* Properties of analyzeCoreFile and saveAnalysis on one transcript *)

\* The step of the mandatory sequence a pass belongs to (0: none of them).
StepOf(pass) ==
    CASE pass \in {"deduplicateThreads", "deduplicateStackTrace"} -> 1
      [] pass = "addFaultAddressContext" -> 2
      [] pass = "enhanceThreadInfo" -> 3
      [] pass = "detectSignalFromStack" -> 4
      [] OTHER -> 0

\* C5: when analyzeCoreFile returns, the passes it ran contain each of the
\* four steps (1) deduplication, (2) fault address to library resolution,
\* (3) per-thread role and query-context enhancement, (4) cross-thread signal
\* inference, and no pass of a later step ran before a pass of an earlier one.
C5_MandatoryOrder ==
    apc \in {"save", "done"} =>
       /\ \A n \in 1..4 : \E k \in 1..Len(phases) : StepOf(phases[k]) = n
       /\ \A j, k \in 1..Len(phases) :
             (j < k /\ StepOf(phases[j]) # 0 /\ StepOf(phases[k]) # 0)
                => StepOf(phases[j]) <= StepOf(phases[k])

\* C6: when parseSignalInfo decoded a signal (SignalNumber # 0), the signal
\* inference leaves the number, code, name and description as decoded.
C6_InferenceOnlyIfAbsent ==
    (apc \in {"enhance", "save", "done"} /\ parsed.SignalNumber # 0)
       => analysis.SignalInfo = parsed

Crashed(threads) == {i \in 1..Len(threads) : threads[i].IsCrashed}

\* C7: at most one thread of the analysis has the crashed flag set, and so
\* has the analysis that saveAnalysis writes.
C7_AtMostOneCrashed ==
    /\ Cardinality(Crashed(analysis.Threads)) <= 1
    /\ apc = "done" => Cardinality(Crashed(document.Threads)) <= 1

\* C8: parseThreads returns no thread without frames.
C8_NoThreadWithoutFrames ==
    \A i \in 1..Len(analysis.Threads) : Len(analysis.Threads[i].Backtrace) > 0

\* The positions of the thread headers of the transcript.
Headers == {h \in 1..Len(transcript) : transcript[h].kind = "header"}
\* The end of the block a header opens: the next header, or the end of input.
BlockEnd(h) ==
    LET later == {k \in Headers : k > h} IN
    IF later = {} THEN Len(transcript)
    ELSE (CHOOSE k \in later : \A m \in later : k <= m) - 1
\* The frame a valid frame line denotes.
FrameOf(line) == [Function |-> line.fn, Location |-> "0x1", Module |-> ""]
\* The valid frame lines of the block of header h, in transcript order.
BlockFrames(h) ==
    LET block == SubSeq(transcript, h + 1, BlockEnd(h))
        valid == SelectSeq(block, LAMBDA l : l.kind = "frame")
    IN [k \in 1..Len(valid) |-> FrameOf(valid[k])]
\* The threads of the result that carry the ordinal of header h.
ThreadsOf(h) ==
    {i \in 1..Len(analysis.Threads) : analysis.Threads[i].ThreadID = transcript[h].id}
\* Header h is the first header with its ordinal.
FirstOfItsId(h) == \A g \in Headers : g < h => transcript[g].id # transcript[h].id

\* C9 as stated: every thread header followed by N valid frame lines yields
\* exactly one thread with the header's ordinal and LWP id and exactly those
\* N frames in transcript order.
C9_EveryHeaderOneThread ==
    apc # "gdb" =>
       \A h \in Headers :
          Cardinality({i \in ThreadsOf(h) :
                          /\ analysis.Threads[i].LWPID = transcript[h].lwp
                          /\ analysis.Threads[i].Backtrace = BlockFrames(h)}) = 1

\* C9 amended: every thread header whose ordinal no earlier header carries
\* yields exactly one thread with that ordinal; it has the header's LWP id
\* and exactly the N valid frames of the header's block in transcript order.
C9_FirstHeaderOneThread ==
    apc # "gdb" =>
       \A h \in Headers :
          FirstOfItsId(h) =>
             /\ Cardinality(ThreadsOf(h)) = 1
             /\ \A i \in ThreadsOf(h) :
                   /\ analysis.Threads[i].LWPID = transcript[h].lwp
                   /\ analysis.Threads[i].Backtrace = BlockFrames(h)

\* A parsed transcript in which a header is followed by two different valid
\* frame lines and a repeated header of the same ordinal.
C9_Witness ==
    /\ apc # "gdb"
    /\ \E h \in Headers :
          /\ FirstOfItsId(h)
          /\ Len(BlockFrames(h)) = 2
          /\ BlockFrames(h)[1] # BlockFrames(h)[2]
          /\ \E g \in Headers : g > h /\ transcript[g].id = transcript[h].id

----------------------------------------------------------------------------
(* Properties of the deduplications *)

ThreadKey(thread) == thread.ThreadID

\* The positions of `in` that hold the first occurrence of their key.
FirstOccurrences(in, Key(_)) ==
    {i \in 1..Len(in) : \A j \in 1..(i - 1) : Key(in[j]) # Key(in[i])}

\* The k-th smallest element of a set of positions.
Kth(idx, k) == CHOOSE i \in idx : Cardinality({j \in idx : j < i}) = k - 1

\* out is the subsequence of in made of the first occurrence of each key.
IsFirstOccurrenceSubsequence(out, in, Key(_)) ==
    LET idx == FirstOccurrences(in, Key) IN
    /\ Len(out) = Cardinality(idx)
    /\ \A k \in 1..Len(out) : out[k] = in[Kth(idx, k)]

NoSharedKey(out, Key(_)) ==
    \A j, k \in 1..Len(out) : j # k => Key(out[j]) # Key(out[k])

C11_Idempotent ==
    /\ dpc \in {"frames twice", "twice"} => dFramesTwice = dFramesOut
    /\ dpc = "twice" => dThreadsTwice = dThreadsOut

\* Both deduplications dropped something the first time and were applied a
\* second time to a result of two elements.
C11_Witness ==
    /\ dpc = "twice"
    /\ Len(dFramesOut) = 2 /\ Len(dFramesOut) < Len(dFrames)
    /\ Len(dThreadsOut) = 2 /\ Len(dThreadsOut) < Len(dThreads)

----------------------------------------------------------------------------
(* Properties of compareCores *)

CrashPatterns == comparison.CrashPatterns

\* The functions of a stack trace that are not system functions, in order.
NonSystemFunctions(a) ==
    SelectSeq([k \in 1..Len(a.StackTrace) |-> a.StackTrace[k].Function],
              LAMBDA f : ~isSystemFunction(f))

\* The signature as the specification defines it: the signal name, then the
\* first 3 frames that are not system frames.
ClaimedSignature(a) ==
    LET fs == NonSystemFunctions(a) IN
    <<a.SignalInfo.SignalName>> \o SubSeq(fs, 1, IF Len(fs) < 3 THEN Len(fs) ELSE 3)

PatternSignature(p) == <<p.Signal>> \o p.StackSignature

\* The inputs that have a given signature.
Members(sig) == {i \in 1..Len(cAnalyses) : ClaimedSignature(cAnalyses[i]) = sig}

\* C12: a pattern is reported for a signature iff at least two inputs have
\* that signature; its count is the number of those inputs and its file list
\* holds exactly their core files; no signature is reported twice.
C12_PatternIffShared ==
    cpc = "done" =>
       /\ \A i \in 1..Len(cAnalyses) :
             Cardinality(Members(ClaimedSignature(cAnalyses[i]))) >= 2
             <=> \E k \in 1..Len(CrashPatterns) :
                    PatternSignature(CrashPatterns[k]) = ClaimedSignature(cAnalyses[i])
       /\ \A k \in 1..Len(CrashPatterns) :
             LET p == CrashPatterns[k]
                 m == Members(PatternSignature(p))
             IN /\ p.OccurrenceCount = Cardinality(m)
                /\ Len(p.AffectedCoreFiles) = Cardinality(m)
                /\ Range(p.AffectedCoreFiles) = {cAnalyses[i].CoreFile : i \in m}
       /\ \A j, k \in 1..Len(CrashPatterns) :
             j # k => PatternSignature(CrashPatterns[j]) # PatternSignature(CrashPatterns[k])

\* C13: the signature of a reported pattern is the signal name followed by
\* the first 3 non-system frames of each member's stack trace, system frames
\* not counting toward the 3.
C13_FirstThreeNonSystemFrames ==
    cpc = "done" =>
       \A k \in 1..Len(CrashPatterns) : \A i \in 1..Len(cAnalyses) :
          cAnalyses[i].CoreFile \in Range(CrashPatterns[k].AffectedCoreFiles)
          => PatternSignature(CrashPatterns[k]) = ClaimedSignature(cAnalyses[i])

\* The position of the first input that belongs to a pattern.
Discovery(p) ==
    LET m == {i \in 1..Len(cAnalyses) :
                 cAnalyses[i].CoreFile \in Range(p.AffectedCoreFiles)}
    IN CHOOSE i \in m : \A j \in m : i <= j

\* C14: the patterns are sorted by descending occurrence count, and patterns
\* of equal count stand in the order in which their signatures were first
\* met in the input.
C14_SortedTiesInDiscoveryOrder ==
    cpc = "done" =>
       \A j, k \in 1..Len(CrashPatterns) :
          j < k =>
             /\ CrashPatterns[j].OccurrenceCount >= CrashPatterns[k].OccurrenceCount
             /\ CrashPatterns[j].OccurrenceCount = CrashPatterns[k].OccurrenceCount
                => Discovery(CrashPatterns[j]) < Discovery(CrashPatterns[k])

RECURSIVE SumOver(_, _)
SumOver(f, keys) ==
    IF keys = {} THEN 0
    ELSE LET key == CHOOSE x \in keys : TRUE IN f[key] + SumOver(f, keys \ {key})

\* C15: the side statistics cover every input: TotalCores is the number of
\* inputs, the signal counts sum to it, every function of every stack-trace
\* frame is counted as often as it occurs, and the time range runs from the
\* earliest to the latest timestamp of the inputs.
C15_SideStatisticsCoverAll ==
    cpc = "done" =>
       LET all == FramePositions(cAnalyses)
           fn(pos) == cAnalyses[pos[1]].StackTrace[pos[2]].Function
           times == {cAnalyses[i].Timestamp : i \in 1..Len(cAnalyses)}
       IN /\ comparison.TotalCores = Len(cAnalyses)
          /\ SumOver(comparison.CommonSignals, DOMAIN comparison.CommonSignals)
                = Len(cAnalyses)
          /\ \A pos \in all :
                /\ fn(pos) \in DOMAIN comparison.CommonFunctions
                /\ comparison.CommonFunctions[fn(pos)]
                      = Cardinality({q \in all : fn(q) = fn(pos)})
          /\ comparison.TimeRange.first \in times
          /\ comparison.TimeRange.last \in times
          /\ \A t \in times :
                /\ timeParse(comparison.TimeRange.first) <= timeParse(t)
                /\ timeParse(t) <= timeParse(comparison.TimeRange.last)

----------------------------------------------------------------------------
(* Properties of the signal decoding *)

Structured == {k \in 1..Len(sOutput) : sOutput[k].kind = "siginfo"}
Textual == {k \in 1..Len(sOutput) : sOutput[k].kind = "signal"}

\* info carries number, code and name of one structured print of the output.
FromStructured(info) ==
    \E k \in Structured :
       /\ info.SignalNumber = sOutput[k].signo
       /\ info.SignalCode = sOutput[k].code
       /\ info.SignalName \in {getSignalName(sOutput[k].signo),
                              getSignalNameInCoreParser(sOutput[k].signo)}

\* info carries number and name of one textual announcement of the output.
FromTextual(info) ==
    \E k \in Textual :
       /\ info.SignalNumber = sOutput[k].signo
       /\ info.SignalName = sOutput[k].name
       /\ info.SignalCode = 0

OneSource(info) ==
    /\ Structured # {} => FromStructured(info)
    /\ Structured = {} => info = NoSignalInfo \/ FromTextual(info)

C17_NameTotal ==
    /\ spc \in {"named", "described"} =>
          /\ sName # ""
          /\ sSigno \in DOMAIN signalMap => sName = signalMap[sSigno]
          /\ sSigno \notin DOMAIN signalMap => sName = "SIGNAL_" \o ToString(sSigno)
          /\ sSigno = 11 => sName = "SIGSEGV"
          /\ sSigno = 7 => sName = "SIGBUS"
          /\ sSigno = 99 => sName = "SIGNAL_99"
    /\ spc \notin {"off", "in"} =>
          (sInfo.SignalNumber # 0 => sInfo.SignalName # "")
    /\ spc \notin {"off", "in", "parsed"} =>
          (sInfoByLine.SignalNumber # 0 => sInfoByLine.SignalName # "")

\* A number outside the table was named.
C17_Witness == spc = "named" /\ sSigno = 99 /\ sName = "SIGNAL_99"

\* C18: the description is the basic phrase of the signal followed by the
\* sub-reason of the code table when the (signal, code) pair is in it, and by
\* the raw suffix "(code N)" for every other signal and code.
C18_UnknownCodeSuffix ==
    spc = "described" =>
       sDescription =
          IF sSigno \in DOMAIN signalCodeMap /\ sCode \in DOMAIN signalCodeMap[sSigno]
          THEN BasicDescription(sSigno) \o " - " \o signalCodeMap[sSigno][sCode]
          ELSE BasicDescription(sSigno) \o " (code " \o ToString(sCode) \o ")"

----------------------------------------------------------------------------
(* Properties of the classifiers *)

\* The labels in the priority order of the rule table.
PriorityOrder ==
    <<"Core", "Extension", "Interconnect", "Compression", "Security", "System",
      "Runtime">>

\* The rules whose pattern matches the path.
MatchingRules == {i \in 1..Len(PriorityOrder) :
                     MatchString(libraryCategories[i].Pattern, kPath)}

\* C19: categorizeLibrary returns one non-empty label for every path: the
\* label of the first rule, in the order Core, Extension, Interconnect,
\* Compression, Security, System, Runtime, whose pattern matches the path,
\* and "Other" when none matches.
C19_FirstMatchingCategory ==
    kpc \in {"categorized", "done"} =>
       /\ kType # ""
       /\ Len(libraryCategories) = Len(PriorityOrder)
       /\ \A i \in 1..Len(PriorityOrder) : libraryCategories[i].Type = PriorityOrder[i]
       /\ MatchingRules = {} => kType = "Other"
       /\ MatchingRules # {} =>
             kType = PriorityOrder[CHOOSE i \in MatchingRules :
                                      \A j \in MatchingRules : i <= j]
       /\ kPath = "/lib/libc.so.6" => kType = "System"
       /\ kPath = "/usr/lib/libunknown.so" => kType = "Other"

\* A path that two rules match was given the label of the earlier rule.
C19_Witness ==
    /\ kpc = "categorized"
    /\ kPath = "/lib/libssl.so.10"
    /\ Cardinality(MatchingRules) = 2
    /\ kType = "Security"

HasFrame(fn) == \E k \in 1..Len(kBacktrace) : kBacktrace[k].Function = fn

\* C20: a backtrace with the signal trampoline at any depth is labelled
\* "Signal Handler" whatever else it holds; any other backtrace gets the first
\* role of the precedence order (Interconnect RX, then Interconnect TX) that
\* one of its frames matches, and no role when none matches.
C20_RolePrecedence ==
    kpc = "done" =>
       kRole = IF HasFrame("SigillSigsegvSigbus") THEN "Signal Handler"
               ELSE IF HasFrame("rxThreadFunc") THEN "Interconnect RX"
               ELSE IF HasFrame("txThreadFunc") THEN "Interconnect TX"
               ELSE ""

----------------------------------------------------------------------------
(* Properties of getThreadSummary *)

\* The threads the role classifier cannot classify.
Unclassified == {i \in 1..Len(mThreads) : determineThreadRole(mThreads[i].Backtrace) = ""}

\* The innermost function of a backtrace that is no system function, "" when
\* every frame is one.
InnermostNonSystem(backtrace) ==
    LET own == {k \in 1..Len(backtrace) : ~isSystemFunction(backtrace[k].Function)}
    IN IF own = {} THEN ""
       ELSE backtrace[CHOOSE k \in own : \A m \in own : k <= m].Function

\* The function names of the threads handed to getThreadSummary.
SummaryFunctions ==
    UNION {{mThreads[i].Backtrace[k].Function : k \in 1..Len(mThreads[i].Backtrace)} :
              i \in 1..Len(mThreads)}

\* C21: every thread the role classifier cannot classify is counted under
\* the label of the innermost non-system function of its backtrace, no
\* system function is ever a label, and no thread is counted under the empty
\* label.
C21_UnknownUnderInnermostNonSystem ==
    mpc = "done" =>
        /\ \A i \in Unclassified :
              LET f == InnermostNonSystem(mThreads[i].Backtrace) IN
              f # "" =>
                 /\ UnknownLabel(f) \in DOMAIN mSummary
                 /\ mSummary[UnknownLabel(f)] =
                       Cardinality({j \in Unclassified :
                                       InnermostNonSystem(mThreads[j].Backtrace) = f})
        /\ \A f \in SummaryFunctions :
              isSystemFunction(f) => UnknownLabel(f) \notin DOMAIN mSummary
        /\ "" \notin DOMAIN mSummary

----------------------------------------------------------------------------
(* Properties of the BasicInfo description *)

\* The fields of the description the command line has, in the order and the
\* wording of the description; the process type is the one the map carries.
PresentParts(info) ==
    (IF Get(info, "process_type") # "" THEN <<Get(info, "process_type")>> ELSE <<>>)
    \o (IF Submatch("database_id", iCmdline) # ""
        THEN <<"Database " \o iCmdline.db>> ELSE <<>>)
    \o (IF iCmdline.seg # "" THEN <<"Segment " \o iCmdline.seg>> ELSE <<>>)
    \o (IF iCmdline.con # "" THEN <<"Connection " \o iCmdline.con>> ELSE <<>>)
    \o (IF iCmdline.address # ""
        THEN IF iCmdline.pid # ""
             THEN <<"Client " \o iCmdline.address \o " (PID " \o iCmdline.pid \o ")">>
             ELSE <<"Client " \o iCmdline.address>>
        ELSE <<>>)

\* C22: the description of the BasicInfo attached to an analysis is the
\* comma-joined list of the fields the command line has, in the fixed order;
\* a field the command line lacks is skipped, never written as "N/A".
C22_DescriptionSkipsAbsentFields ==
    ipc \in {"attached", "done"} /\ "description" \in DOMAIN iBasicInfo =>
        iBasicInfo["description"] = JoinWith(PresentParts(iBasicInfo), ", ")

----------------------------------------------------------------------------
(* Properties of detectSignalFromStack *)

\* detectSignalFromStack has run on the analysis.
Detected == apc \in {"enhance", "save", "done"}

\* The threads with a trampoline frame in their backtrace.
TrampolineThreads ==
    {i \in 1..Len(analysis.Threads) :
        \E k \in 1..Len(analysis.Threads[i].Backtrace) :
           analysis.Threads[i].Backtrace[k].Function = "SigillSigsegvSigbus"}

\* The threads that are not crashed and have a key function.
Eligible ==
    {i \in 1..Len(analysis.Threads) :
        /\ ~analysis.Threads[i].IsCrashed
        /\ findKeyFunction(analysis.Threads[i].Backtrace) # ""}

----------------------------------------------------------------------------
(* Properties of saveAnalysis *)

\* C24: the document saveAnalysis wrote, read back, has every populated field
\* of the analysis that was handed to saveAnalysis, with the same value, in
\* both formats.
C24_RoundTrip ==
    vpc = "restored" =>
        /\ \A field \in {"Timestamp", "CoreFile", "FileInfo", "SignalInfo"} :
              vRestored[field] = vAnalysis[field]
        /\ \A field \in {"BasicInfo", "StackTrace", "Threads"} :
              vAnalysis[field] # <<>> => vRestored[field] = vAnalysis[field]

----------------------------------------------------------------------------
(* Properties of the key of deduplicateStackTrace *)

\* The (function, location, module) triple of a frame.
Triple(frame) == <<frame.Function, frame.Location, frame.Module>>

\* C25: deduplicateStackTrace merges two frames if and only if their
\* (function, location, module) triples are equal: every triple of the input
\* is still in the output, once, also when a component holds a ':'.
C25_MergedIffEqualTriples ==
    dpc \notin {"off", "in"} =>
        /\ \A i \in 1..Len(dFrames) :
              \E k \in 1..Len(dFramesOut) : Triple(dFramesOut[k]) = Triple(dFrames[i])
        /\ \A k, m \in 1..Len(dFramesOut) :
              Triple(dFramesOut[k]) = Triple(dFramesOut[m]) => k = m

----------------------------------------------------------------------------
(* Properties of the output of a batch run *)

\* C26: without --gdb-style no two saveAnalysis calls of a run write the
\* same file name, and after the run the output directory holds one analysis
\* file for every analysis that was saved.
C26_OneFilePerAnalysis ==
    ~env.gdbStyleOutput =>
        /\ \A name \in DOMAIN files : Len(files[name]) <= 1
        /\ pc = "done" /\ ~EnvError(env) =>
              Cardinality(DOMAIN files) =
                 Cardinality({i \in Succeeded : saved[i] = "ok"})

\* C27: with --gdb-style the writes of one task's report stand next to each
\* other on standard output: no write of another task lies between two
\* writes of the same task.
C27_ReportsContiguous ==
    \A a, b, c \in 1..Len(stdout) :
       a < b /\ b < c /\ stdout[a].task = stdout[c].task =>
          stdout[b].task = stdout[a].task

\* C30: the list findCoreFiles returned names every core file at most once,
\* so no two tasks have the same core file and compareCores is not handed
\* two analyses of the same core file.
C30_NoCoreFileTwice ==
    /\ \A i, j \in 1..Len(coreFiles) : coreFiles[i] = coreFiles[j] => i = j
    /\ \A i, j \in 1..Len(compared) : compared[i].CoreFile = compared[j].CoreFile => i = j

----------------------------------------------------------------------------
(* Properties of findAddressLibrary *)

\* The libraries whose numeric [TextStart, TextEnd] range holds the address.
Containing ==
    {i \in 1..Len(lLibraries) :
        /\ NumericLeq(lLibraries[i].TextStart, lAddress)
        /\ NumericLeq(lAddress, lLibraries[i].TextEnd)}

\* C28: findAddressLibrary returns the first library of the list whose
\* numeric range holds the address and nil when no range holds it, whatever
\* the digit counts and the letter case of address and bounds; this is the
\* library addFaultAddressContext names.
C28_AgreesWithNumericContainment ==
    /\ lpc \in {"found", "done"} =>
          IF Containing = {} THEN lFound = <<>>
          ELSE lFound = <<lLibraries[CHOOSE i \in Containing :
                                        \A j \in Containing : i <= j]>>
    /\ lpc = "done" =>
          lDescription = "Segmentation fault" \o
             (IF lFound = <<>> THEN " (fault address not in mapped memory)"
              ELSE " (fault address in " \o lFound[1].Name \o ")")

----------------------------------------------------------------------------
(* Properties of the thread named in the inferred description *)

\* The description that names key function and role of thread i.
Naming(i) ==
    "Segmentation fault in " \o findKeyFunction(analysis.Threads[i].Backtrace)
       \o " (thread: " \o analysis.Threads[i].Name \o ")"

\* C29: the thread whose key function and role the inferred description
\* names has no trampoline frame in its own backtrace, whether or not the
\* debugger marked it as the current thread.
C29_NamedThreadHasNoTrampoline ==
    Detected =>
        \A i \in Eligible :
           /\ \A j \in Eligible : i <= j
           /\ analysis.SignalInfo.SignalDescription = Naming(i)
           => i \notin TrampolineThreads

====
